---- MODULE Spec2Model ----
(***************************************************************************)
(* A model of the viewport controller of slick-viewer:                     *)
(*   src/app/composables/useViewportControl.ts                             *)
(* the transform engine (zoom, rotate, fit, pan, select), the pointer      *)
(* gesture classifier (usePointerAction), the key shortcuts, the wheel     *)
(* and context-menu listeners, and the size tracking that feeds them.      *)
(*                                                                         *)
(* Numbers.  The program computes with IEEE doubles.  The model computes   *)
(* with exact rationals n/d extended by the three special values of the    *)
(* doubles: NaN = 0/0, +Infinity = 1/0, -Infinity = -1/0.  Rounding is     *)
(* not modelled; signed zero is not modelled.                              *)
(***************************************************************************)
EXTENDS Integers, Sequences, FiniteSets, TLC

----------------------------------------------------------------------------
(* Extended rational arithmetic (the doubles of the program).              *)

Abs(i) == IF i < 0 THEN 0 - i ELSE i

Sgn(i) == IF i > 0 THEN 1 ELSE IF i < 0 THEN 0 - 1 ELSE 0

RECURSIVE GCD(_, _)
GCD(x, y) == IF y = 0 THEN x ELSE GCD(y, x % y)

\* The number n/d in lowest terms with a positive denominator; d = 0 gives
\* NaN (n = 0) or an infinity with the sign of n.
Q(n, d) ==
    IF d = 0 THEN [n |-> Sgn(n), d |-> 0]
    ELSE LET g == GCD(Abs(n), Abs(d))
             s == Sgn(d)
         IN  [n |-> s * (n \div g), d |-> s * (d \div g)]

R(i) == [n |-> i, d |-> 1]

NaN == [n |-> 0, d |-> 0]

IsNaN(x) == x.d = 0 /\ x.n = 0

IsFinite(x) == x.d # 0

RNeg(x) == [n |-> 0 - x.n, d |-> x.d]

RAbs(x) == [n |-> Abs(x.n), d |-> x.d]

RMul(x, y) ==
    IF x.d = 0 \/ y.d = 0 THEN Q(x.n * y.n, 0)
    ELSE IF x.n = 0 \/ y.n = 0 THEN R(0)
    ELSE LET g1 == GCD(Abs(x.n), y.d)
             g2 == GCD(Abs(y.n), x.d)
         IN  Q((x.n \div g1) * (y.n \div g2), (x.d \div g2) * (y.d \div g1))

RAdd(x, y) ==
    IF x.d = 0 /\ y.d = 0 THEN (IF x.n = y.n THEN x ELSE NaN)
    ELSE IF x.d = 0 THEN x
    ELSE IF y.d = 0 THEN y
    ELSE LET g == GCD(x.d, y.d)
         IN  Q(x.n * (y.d \div g) + y.n * (x.d \div g), (x.d \div g) * y.d)

RSub(x, y) == RAdd(x, RNeg(y))

\* x / y; a finite non-zero number over zero is an infinity, 0/0 is NaN.
RDiv(x, y) ==
    IF y.d # 0 /\ y.n = 0 THEN Q(x.n, 0)
    ELSE RMul(x, Q(y.d, y.n))

\* x < y of the doubles: false as soon as one side is NaN.
RLt(x, y) ==
    IF IsNaN(x) \/ IsNaN(y) THEN FALSE
    ELSE IF x.d = 0 /\ y.d = 0 THEN x.n < y.n
    ELSE x.n * y.d < y.n * x.d

RLe(x, y) == ~IsNaN(x) /\ ~IsNaN(y) /\ ~RLt(y, x)

\* x === y of the doubles: NaN equals nothing.
REq(x, y) == ~IsNaN(x) /\ ~IsNaN(y) /\ x = y

\* Math.max / Math.min: NaN as soon as one argument is NaN.
RMax(x, y) == IF IsNaN(x) \/ IsNaN(y) THEN NaN ELSE IF RLt(x, y) THEN y ELSE x

RMin(x, y) == IF IsNaN(x) \/ IsNaN(y) THEN NaN ELSE IF RLt(y, x) THEN y ELSE x

\* Math.sign
RSign(x) == IF IsNaN(x) THEN NaN ELSE R(Sgn(x.n))

RECURSIVE ISqrtB(_, _, _)
ISqrtB(n, lo, hi) ==
    IF lo >= hi THEN lo
    ELSE LET mid == (lo + hi + 1) \div 2
         IN  IF mid * mid <= n THEN ISqrtB(n, mid, hi) ELSE ISqrtB(n, lo, mid - 1)

\* The integer square root; every operation of the program is a similarity
\* with a rational scale, so the radicands met are perfect squares.
ISqrt(n) == ISqrtB(n, 0, IF n < 46340 THEN n ELSE 46340)

\* Math.sqrt
RSqrt(x) ==
    IF IsNaN(x) \/ x.n < 0 THEN NaN
    ELSE IF x.d = 0 THEN x
    ELSE Q(ISqrt(x.n), ISqrt(x.d))

----------------------------------------------------------------------------
(* DOMMatrix (2D): the six scalars a b c d e f, every operation pure.      *)

\* Bound of the model: Math.cos / Math.sin inside DOMMatrix.rotate are given
\* by rational points of the unit circle, (k^2-1, 2k)/(k^2+1) for an angle
\* whose half-angle tangent is 1/k; k is at most MaxTanDen.
MaxTanDen == 3

Matrix(a, b, c, d, e, f) == [a |-> a, b |-> b, c |-> c, d |-> d, e |-> e, f |-> f]

\* new DOMMatrix()
Identity == Matrix(R(1), R(0), R(0), R(1), R(0), R(0))

NaNMatrix == Matrix(NaN, NaN, NaN, NaN, NaN, NaN)

\* m.translate(tx, ty): post-multiplication by a translation.
Translate(m, tx, ty) ==
    [m EXCEPT !.e = RAdd(RAdd(RMul(m.a, tx), RMul(m.c, ty)), m.e),
              !.f = RAdd(RAdd(RMul(m.b, tx), RMul(m.d, ty)), m.f)]

\* m.scale(s): uniform scale about the origin, post-multiplied.
Scale(m, s) ==
    [m EXCEPT !.a = RMul(m.a, s), !.b = RMul(m.b, s),
              !.c = RMul(m.c, s), !.d = RMul(m.d, s)]

\* Post-multiplication by the rotation whose cosine and sine are cs.c, cs.s.
RotateCS(m, cs) ==
    [m EXCEPT !.a = RAdd(RMul(m.a, cs.c), RMul(m.c, cs.s)),
              !.b = RAdd(RMul(m.b, cs.c), RMul(m.d, cs.s)),
              !.c = RSub(RMul(m.c, cs.c), RMul(m.a, cs.s)),
              !.d = RSub(RMul(m.d, cs.c), RMul(m.b, cs.s))]

\* Cosine and sine of k quarter turns.
QuarterCS(k) ==
    LET r == k % 4
    IN  IF r = 0 THEN [c |-> R(1), s |-> R(0)]
        ELSE IF r = 1 THEN [c |-> R(0), s |-> R(1)]
        ELSE IF r = 2 THEN [c |-> R(0 - 1), s |-> R(0)]
        ELSE [c |-> R(0), s |-> R(0 - 1)]

\* Cosine and sine of an angle in degrees: exact for the multiples of 90,
\* otherwise the nearest quarter turn composed with the rational rotation of
\* half-angle tangent 1/k, k = round(360 / (pi * |rest|)) capped by MaxTanDen
\* (the sign and the unit length of the rotation are exact, its size is not).
CosSin(deg) ==
    IF deg.d = 0 THEN [c |-> NaN, s |-> NaN]
    ELSE LET sg == Sgn(deg.n)
             p  == Abs(deg.n)
             q  == deg.d
             qt == (2 * p + 90 * q) \div (180 * q)
             rn == p - 90 * q * qt
             qc == QuarterCS(qt)
             kk == (2 * 11459 * q + 100 * Abs(rn)) \div (200 * Abs(rn))
             k  == IF kk > MaxTanDen THEN MaxTanDen ELSE kk
             c0 == Q(k * k - 1, k * k + 1)
             s0 == Q(Sgn(rn) * 2 * k, k * k + 1)
             c1 == IF rn = 0 THEN qc.c ELSE RSub(RMul(qc.c, c0), RMul(qc.s, s0))
             s1 == IF rn = 0 THEN qc.s ELSE RAdd(RMul(qc.c, s0), RMul(qc.s, c0))
         IN  [c |-> c1, s |-> IF sg < 0 THEN RNeg(s1) ELSE s1]

\* m.rotate(deg)
Rotate(m, deg) == RotateCS(m, CosSin(deg))

\* A variant of NegAtan2CS: the angle is not negated, atan2(b, a).
Atan2CS(b, a) ==
    IF IsNaN(a) \/ IsNaN(b) THEN [c |-> NaN, s |-> NaN]
    ELSE IF a.n = 0 /\ b.n = 0 THEN [c |-> R(1), s |-> R(0)]
    ELSE IF a.d = 0 \/ b.d = 0 THEN [c |-> NaN, s |-> NaN]
    ELSE LET r == RSqrt(RAdd(RMul(a, a), RMul(b, b)))
         IN  [c |-> RDiv(a, r), s |-> RDiv(b, r)]

\* Cosine and sine of the angle -atan2(b, a): the unit vector (a, -b)/|(a, b)|;
\* atan2(0, 0) is 0.
NegAtan2CS(b, a) ==
    IF IsNaN(a) \/ IsNaN(b) THEN [c |-> NaN, s |-> NaN]
    ELSE IF a.n = 0 /\ b.n = 0 THEN [c |-> R(1), s |-> R(0)]
    ELSE IF a.d = 0 \/ b.d = 0
         THEN \* an infinite component: the angle is a multiple of 45 degrees
              [c |-> NaN, s |-> NaN]
    ELSE LET r == RSqrt(RAdd(RMul(a, a), RMul(b, b)))
         IN  [c |-> RDiv(a, r), s |-> RNeg(RDiv(b, r))]

Det(m) == RSub(RMul(m.a, m.d), RMul(m.b, m.c))

MatrixFinite(m) ==
    /\ IsFinite(m.a) /\ IsFinite(m.b) /\ IsFinite(m.c)
    /\ IsFinite(m.d) /\ IsFinite(m.e) /\ IsFinite(m.f)

\* m.inverse(): a matrix that is not invertible gives the matrix of NaN.
Inverse(m) ==
    LET det == Det(m)
    IN  IF ~MatrixFinite(m) \/ ~IsFinite(det) \/ det.n = 0 THEN NaNMatrix
        ELSE Matrix(RDiv(m.d, det), RNeg(RDiv(m.b, det)),
                    RNeg(RDiv(m.c, det)), RDiv(m.a, det),
                    RDiv(RSub(RMul(m.c, m.f), RMul(m.d, m.e)), det),
                    RDiv(RSub(RMul(m.b, m.e), RMul(m.a, m.f)), det))

\* m.transformPoint(new DOMPoint(x, y))
TransformPoint(m, x, y) ==
    [x |-> RAdd(RAdd(RMul(m.a, x), RMul(m.c, y)), m.e),
     y |-> RAdd(RAdd(RMul(m.b, x), RMul(m.d, y)), m.f)]

----------------------------------------------------------------------------
(* The state of one useViewportControl instance.                           *)

VARIABLES
    transformMatrix,      \* the DOMMatrix the content is rendered through
    area,                 \* the selection rectangle, or NoArea
    suppressContextMenu,  \* the flag of the viewport (a closure variable)
    contentWidth,         \* tracked intrinsic size of the content
    contentHeight,
    containerBounding,    \* useElementBounding(container)
    pointer,              \* the gesture session of usePointerAction
    actions,              \* the action list usePointerAction was given
    observing,            \* the resize observer has not been stopped
    ops,                  \* transform changes since the last fit (model bound)
    limit,                \* the bound on ops of the specification (constant)
    last,                 \* the last event handled and what its handler did
    media                 \* the content elements: the one attached, those
                          \* whose image is complete, those being decoded

vars == <<transformMatrix, area, suppressContextMenu, contentWidth, contentHeight,
          containerBounding, pointer, actions, observing, ops, limit, last, media>>

\* No content element yet.
NoMedia == [attached |-> 0, complete |-> {}, decoding |-> {}]

\* Bounds of the model: the changes of the transform between two fits are at
\* most MaxOps when the operations are called directly, MaxGestureOps when
\* they are driven by gestures, MaxMixedOps when both happen.
MaxOps == 2

MaxGestureOps == 1

MaxMixedOps == 0

DRAG_MARGIN == 60

MIN_AREA == 12

\* The zoom-out floor, in pixels.
MIN_SIZE == 50

\* The padding option the viewport is created with.
OptionsPadding == 20

NoArea == [set |-> FALSE]

Rect(x, y, w, h) == [set |-> TRUE, x |-> x, y |-> y, w |-> w, h |-> h]

NoPivot == [given |-> FALSE]

Pivot(x, y) == [given |-> TRUE, x |-> x, y |-> y]

Bounding(l, t, w, h) == [left |-> l, top |-> t, width |-> w, height |-> h]

\* The bounding rectangles the container takes: not laid out, and laid out.
Containers == {Bounding(0, 0, 0, 0), Bounding(20, 10, 200, 160)}

\* The intrinsic sizes the content takes: not decoded, and two pictures.
Contents == {<<0, 0>>, <<40, 30>>, <<30, 40>>}

\* The idle session: pointerId and action undefined.
IdlePointer ==
    [suppressContextMenu |-> FALSE, pointerId |-> <<>>, down |-> FALSE,
     action |-> "undefined", startX |-> 0, startY |-> 0, x |-> 0, y |-> 0]

\* The action list of useViewportControl, in the key order of the object literal.
DefaultActions == <<"pan", "rotate", "area">>

\* Another caller of usePointerAction: two actions with a down callback only,
\* "primary" accepting the left button and "any" accepting every press.
OverlapActions == <<"primary", "any">>

Call(fn, args) == fn

Log(ev, calls, consumed) == [ev |-> ev, calls |-> calls, consumed |-> consumed]

----------------------------------------------------------------------------
(* The transform operations, as functions of the state they read; each     *)
(* gives the new value of transformMatrix.                                 *)

\* getContextData() on the given values of the state it reads.
ContextData(m, cb, cw, ch) ==
    IF cb.width = 0 \/ cb.height = 0 \/ cw = 0 \/ ch = 0
    THEN [ok |-> FALSE]
    ELSE [ok |-> TRUE, matrix |-> m, container |-> cb,
          content |-> [width |-> cw, height |-> ch]]

getContextData ==
    ContextData(transformMatrix, containerBounding, contentWidth, contentHeight)

\* A variant of ZoomFloor: the floor also rejects a content of exactly MIN_SIZE.
ZoomFloorInclusive(m, cw, ch) ==
    LET currentScale  == RSqrt(RAdd(RMul(m.a, m.a), RMul(m.b, m.b)))
        currentWidth  == RAbs(RMul(currentScale, R(cw)))
        currentHeight == RAbs(RMul(currentScale, R(ch)))
    IN  RLe(RMax(currentWidth, currentHeight), R(MIN_SIZE))

\* A variant of ZoomFloor: there is no floor.
ZoomFloorNever(m, cw, ch) == FALSE

\* The test of the zoom-out floor on matrix m.
ZoomFloor(m, cw, ch) ==
    LET currentScale  == RSqrt(RAdd(RMul(m.a, m.a), RMul(m.b, m.b)))
        currentWidth  == RAbs(RMul(currentScale, R(cw)))
        currentHeight == RAbs(RMul(currentScale, R(ch)))
    IN  RLt(RMax(currentWidth, currentHeight), R(MIN_SIZE))

\* The pivot of zoom and rotate: the one given, else the content centre.
PivotOf(pivot, ctx) ==
    IF pivot.given THEN [x |-> pivot.x, y |-> pivot.y]
    ELSE [x |-> Q(ctx.content.width, 2), y |-> Q(ctx.content.height, 2)]

\* A variant of zoomOn: the pivot is not translated back.
zoomOnNoTranslateBack(m, scaleFactor, pivot) ==
    LET ctx == ContextData(m, containerBounding, contentWidth, contentHeight)
    IN  IF ~ctx.ok THEN m
        ELSE IF RLt(scaleFactor, R(1))
                /\ ZoomFloor(ctx.matrix, ctx.content.width, ctx.content.height)
        THEN m
        ELSE LET p == PivotOf(pivot, ctx)
             IN  Scale(Translate(ctx.matrix, p.x, p.y), scaleFactor)

\* zoom(scaleFactor, pivot) run while transformMatrix.value is m.
zoomOn(m, scaleFactor, pivot) ==
    LET ctx == ContextData(m, containerBounding, contentWidth, contentHeight)
    IN  IF ~ctx.ok THEN m
        ELSE IF RLt(scaleFactor, R(1))
                /\ ZoomFloor(ctx.matrix, ctx.content.width, ctx.content.height)
        THEN m
        ELSE LET p == PivotOf(pivot, ctx)
             IN  Translate(Scale(Translate(ctx.matrix, p.x, p.y), scaleFactor),
                           RNeg(p.x), RNeg(p.y))

zoom(scaleFactor, pivot) == zoomOn(transformMatrix, scaleFactor, pivot)

\* A variant of PointInImageCoords: the client position is taken as local.
PointInImageCoordsClient(ctx, clientX, clientY) ==
    TransformPoint(Inverse(ctx.matrix), R(clientX), R(clientY))

\* The content-space point under the client position (clientX, clientY).
PointInImageCoords(ctx, clientX, clientY) ==
    LET mouseX == R(clientX - ctx.container.left)
        mouseY == R(clientY - ctx.container.top)
    IN  TransformPoint(Inverse(ctx.matrix), mouseX, mouseY)

zoomAtMousePoint(scaleFactor, clientX, clientY) ==
    LET ctx == getContextData
    IN  IF ~ctx.ok THEN transformMatrix
        ELSE LET p == PointInImageCoords(ctx, clientX, clientY)
             IN  zoom(scaleFactor, Pivot(p.x, p.y))

rotate(deg, pivot) ==
    LET ctx == getContextData
    IN  IF ~ctx.ok THEN transformMatrix
        ELSE LET p == PivotOf(pivot, ctx)
             IN  Translate(Rotate(Translate(ctx.matrix, p.x, p.y), deg),
                           RNeg(p.x), RNeg(p.y))

rotateAtMousePoint(deg, clientX, clientY) ==
    LET ctx == getContextData
    IN  IF ~ctx.ok THEN transformMatrix
        ELSE LET p == PointInImageCoords(ctx, clientX, clientY)
             IN  rotate(deg, Pivot(p.x, p.y))

\* rotateExact(deg) run while transformMatrix.value is m.
rotateExactOn(m, deg) ==
    LET ctx == ContextData(m, containerBounding, contentWidth, contentHeight)
    IN  IF ~ctx.ok THEN m
        ELSE LET cx == Q(ctx.content.width, 2)
                 cy == Q(ctx.content.height, 2)
                 m1 == Translate(ctx.matrix, cx, cy)
                 m2 == RotateCS(m1, NegAtan2CS(ctx.matrix.b, ctx.matrix.a))
                 m3 == Rotate(m2, deg)
             IN  Translate(m3, RNeg(cx), RNeg(cy))

rotateExact(deg) == rotateExactOn(transformMatrix, deg)

\* A variant of FitOf: the larger of the two ratios is taken.
FitOfMax(ctx, padding) ==
    LET scale == RMax(Q(ctx.container.width - padding, ctx.content.width),
                      Q(ctx.container.height - padding, ctx.content.height))
        m1 == Translate(Identity, Q(ctx.container.width, 2), Q(ctx.container.height, 2))
    IN  Translate(Scale(m1, scale), RNeg(Q(ctx.content.width, 2)),
                  RNeg(Q(ctx.content.height, 2)))

\* The transform centerImage computes in context ctx.
FitOf(ctx, padding) ==
    LET scale == RMin(Q(ctx.container.width - padding, ctx.content.width),
                      Q(ctx.container.height - padding, ctx.content.height))
        m1 == Translate(Identity, Q(ctx.container.width, 2), Q(ctx.container.height, 2))
    IN  Translate(Scale(m1, scale), RNeg(Q(ctx.content.width, 2)),
                  RNeg(Q(ctx.content.height, 2)))

\* centerImage(padding) with the padding given.
centerImage(padding) ==
    LET ctx == getContextData
    IN  IF ~ctx.ok THEN transformMatrix ELSE FitOf(ctx, padding)

\* reset(), that is centerImage() with the padding of the options, run by a
\* watcher or observer once the state it reads has its new values.
ResetIn(ctx) ==
    IF ~ctx.ok THEN UNCHANGED <<transformMatrix, ops>>
    ELSE transformMatrix' = FitOf(ctx, OptionsPadding) /\ ops' = 0

\* A variant of pad: the context is used without the test that it is there.
padUnguarded(x, y) ==
    LET inv    == Inverse(transformMatrix)
        origin == TransformPoint(inv, R(0), R(0))
        moved  == TransformPoint(inv, x, y)
    IN  Translate(transformMatrix, RSub(moved.x, origin.x), RSub(moved.y, origin.y))

pad(x, y) ==
    LET ctx == getContextData
    IN  IF ~ctx.ok THEN transformMatrix
        ELSE LET inv    == Inverse(ctx.matrix)
                 origin == TransformPoint(inv, R(0), R(0))
                 moved  == TransformPoint(inv, x, y)
             IN  Translate(ctx.matrix, RSub(moved.x, origin.x), RSub(moved.y, origin.y))

select(r) ==
    LET ctx == getContextData
    IN  IF ~ctx.ok THEN transformMatrix
        ELSE LET inv == Inverse(ctx.matrix)
                 origin == TransformPoint(inv, Q(ctx.container.width, 2),
                                          Q(ctx.container.height, 2))
                 areaCenter == TransformPoint(inv, RAdd(r.x, RDiv(r.w, R(2))),
                                              RAdd(r.y, RDiv(r.h, R(2))))
                 scaleFactor == RMin(RDiv(R(ctx.container.width), r.w),
                                     RDiv(R(ctx.container.height), r.h))
             IN  Translate(Scale(Translate(ctx.matrix, origin.x, origin.y), scaleFactor),
                           RNeg(areaCenter.x), RNeg(areaCenter.y))

----------------------------------------------------------------------------
(* The inputs of the operations and the events, drawn from small sets.     *)

\* zoom(factor, pivot): down to the floor, across it, back up, and to zero.
ZoomArgs == {<<Q(1, 4), NoPivot>>, <<Q(1, 2), NoPivot>>, <<R(2), Pivot(R(0), R(0))>>,
             <<R(0), NoPivot>>}

\* zoomAtMousePoint(factor, event): the factor and the client position.
ZoomAtArgs == {<<R(2), <<120, 90>>>>, <<Q(1, 2), <<60, 30>>>>}

\* rotate(deg, pivot)
RotateArgs == {<<R(90), NoPivot>>, <<R(0 - 15), Pivot(R(0), R(0))>>}

\* rotateAtMousePoint(deg, event)
RotateAtArgs == {<<R(90), <<60, 30>>>>}

Degrees == {R(0), R(90)}

\* centerImage(padding): none, and the height of the laid-out container.
Paddings == {0, 160}

PadDeltas == {<<R(5), R(0 - 5)>>}

SelectRects == {Rect(R(50), R(40), R(100), R(80)), Rect(R(10), R(10), R(0), R(20))}

\* event.key: keys of the key map, and one that is not in it.
Keys == {" ", "Escape", "ArrowUp", "End", "+", "a"}

PointerIds == {1, 2}

\* event.button: left, middle, right
Buttons == {0, 1, 2}

\* Client positions of presses: with the container at (20, 10), size 200 x 160,
\* the centre, two corners of the inner zone, and one point just inside the
\* margin of each edge.
DownPoints == {<<120, 90>>, <<80, 70>>, <<160, 110>>,
               <<79, 90>>, <<161, 90>>, <<120, 69>>, <<120, 111>>}

----------------------------------------------------------------------------
(* Assignments of the transform, with the bound of the model.              *)

\* transformMatrix.value = m, in an operation other than the fit.
SetMatrix(m) ==
    /\ (ops < limit \/ ~getContextData.ok)
    /\ transformMatrix' = m
    /\ ops' = IF m # transformMatrix THEN ops + 1 ELSE ops

\* transformMatrix.value = m, in the fit.
FitMatrix(m) ==
    /\ transformMatrix' = m
    /\ ops' = IF getContextData.ok THEN 0 ELSE ops

\* The state after useViewportControl has run, before the container is laid
\* out and the content decoded, with the action list acts and the bound lim.
Constructed(acts, lim) ==
    /\ transformMatrix = Identity
    /\ area = NoArea
    /\ suppressContextMenu = FALSE
    /\ contentWidth = 0
    /\ contentHeight = 0
    /\ containerBounding = Bounding(0, 0, 0, 0)
    /\ pointer = IdlePointer
    /\ actions = acts
    /\ observing = TRUE
    /\ ops = 0
    /\ limit = lim
    /\ last = Log("init", <<>>, FALSE)
    /\ media = NoMedia

----------------------------------------------------------------------------
(* The operations the viewport returns, called by the host.                *)

Zoom(scaleFactor, pivot) ==
    /\ SetMatrix(zoom(scaleFactor, pivot))
    /\ last' = Log("zoom", <<Call("zoom", <<scaleFactor, pivot>>)>>, FALSE)
    /\ UNCHANGED <<area, suppressContextMenu, contentWidth, contentHeight,
                   containerBounding, pointer, actions, observing, limit, media>>

ZoomAtMousePoint(scaleFactor, pt) ==
    /\ SetMatrix(zoomAtMousePoint(scaleFactor, pt[1], pt[2]))
    /\ last' = Log("zoomAtMousePoint",
                   <<Call("zoomAtMousePoint", <<scaleFactor, pt>>)>>, FALSE)
    /\ UNCHANGED <<area, suppressContextMenu, contentWidth, contentHeight,
                   containerBounding, pointer, actions, observing, limit, media>>

RotateBy(deg, pivot) ==
    /\ SetMatrix(rotate(deg, pivot))
    /\ last' = Log("rotate", <<Call("rotate", <<deg, pivot>>)>>, FALSE)
    /\ UNCHANGED <<area, suppressContextMenu, contentWidth, contentHeight,
                   containerBounding, pointer, actions, observing, limit, media>>

RotateAtMousePoint(deg, pt) ==
    /\ SetMatrix(rotateAtMousePoint(deg, pt[1], pt[2]))
    /\ last' = Log("rotateAtMousePoint",
                   <<Call("rotateAtMousePoint", <<deg, pt>>)>>, FALSE)
    /\ UNCHANGED <<area, suppressContextMenu, contentWidth, contentHeight,
                   containerBounding, pointer, actions, observing, limit, media>>

RotateExact(deg) ==
    /\ SetMatrix(rotateExact(deg))
    /\ last' = Log("rotateExact", <<Call("rotateExact", <<deg>>)>>, FALSE)
    /\ UNCHANGED <<area, suppressContextMenu, contentWidth, contentHeight,
                   containerBounding, pointer, actions, observing, limit, media>>

CenterImage(padding) ==
    /\ FitMatrix(centerImage(padding))
    /\ last' = Log("centerImage", <<Call("centerImage", <<padding>>)>>, FALSE)
    /\ UNCHANGED <<area, suppressContextMenu, contentWidth, contentHeight,
                   containerBounding, pointer, actions, observing, limit, media>>

Pad(d) ==
    /\ SetMatrix(pad(d[1], d[2]))
    /\ last' = Log("pad", <<Call("pad", d)>>, FALSE)
    /\ UNCHANGED <<area, suppressContextMenu, contentWidth, contentHeight,
                   containerBounding, pointer, actions, observing, limit, media>>

Select(r) ==
    /\ SetMatrix(select(r))
    /\ last' = Log("select", <<Call("select", <<r>>)>>, FALSE)
    /\ UNCHANGED <<area, suppressContextMenu, contentWidth, contentHeight,
                   containerBounding, pointer, actions, observing, limit, media>>

----------------------------------------------------------------------------
(* The collaborators: the content's size and the container's rectangle.    *)

\* computeDimensions(el) on content replacement, load, loadedmetadata or
\* decode, then the watcher of [contentWidth, contentHeight], which runs
\* reset() when one of the two refs has changed.
ContentChange(size) ==
    /\ contentWidth' = size[1]
    /\ contentHeight' = size[2]
    /\ IF size[1] # contentWidth \/ size[2] # contentHeight
       THEN ResetIn(ContextData(transformMatrix, containerBounding, size[1], size[2]))
       ELSE UNCHANGED <<transformMatrix, ops>>
    /\ last' = Log("content", <<>>, FALSE)
    /\ UNCHANGED <<area, suppressContextMenu, containerBounding, pointer, actions,
                   observing, limit, media>>

\* A variant of ContainerResize: the observer is not stopped.
ContainerResizeKeepsObserving(rect) ==
    /\ rect # containerBounding
    /\ containerBounding' = rect
    /\ IF observing /\ (rect.width # containerBounding.width
                        \/ rect.height # containerBounding.height)
       THEN ResetIn(ContextData(transformMatrix, rect, contentWidth, contentHeight))
       ELSE UNCHANGED <<transformMatrix, ops>>
    /\ UNCHANGED observing
    /\ last' = Log("resize", <<>>, FALSE)
    /\ UNCHANGED <<area, suppressContextMenu, contentWidth, contentHeight, pointer,
                   actions, limit, media>>

\* The container's rectangle changes: useElementBounding takes the new
\* rectangle, and the resize observer, while it is observing and the size
\* has changed, runs reset() and stops.
ContainerResize(rect) ==
    /\ rect # containerBounding
    /\ containerBounding' = rect
    /\ IF observing /\ (rect.width # containerBounding.width
                        \/ rect.height # containerBounding.height)
       THEN /\ ResetIn(ContextData(transformMatrix, rect, contentWidth, contentHeight))
            /\ observing' = FALSE
       ELSE UNCHANGED <<transformMatrix, ops, observing>>
    /\ last' = Log("resize", <<>>, FALSE)
    /\ UNCHANGED <<area, suppressContextMenu, contentWidth, contentHeight, pointer,
                   actions, limit, media>>

----------------------------------------------------------------------------
(* useShortcuts: the keydown listener and the key map of the viewport.     *)

\* The transform a call gives; a call names the operation and its arguments.
Invoke(call) ==
    IF call.op = "zoom" THEN zoom(call.factor, NoPivot)
    ELSE IF call.op = "zoomAtMousePoint"
         THEN zoomAtMousePoint(call.factor, call.pt[1], call.pt[2])
    ELSE IF call.op = "rotateAtMousePoint"
         THEN rotateAtMousePoint(call.deg, call.pt[1], call.pt[2])
    ELSE IF call.op = "rotateExact" THEN rotateExact(call.deg)
    ELSE IF call.op = "pad" THEN pad(call.x, call.y)
    ELSE centerImage(call.padding)

\* The key map of the viewport: the call each key makes.
Shortcut(key) ==
    IF key = " " THEN [mapped |-> TRUE, op |-> "centerImage", padding |-> OptionsPadding]
    ELSE IF key = "Escape" THEN [mapped |-> TRUE, op |-> "rotateExact", deg |-> R(0)]
    ELSE IF key = "ArrowUp" THEN [mapped |-> TRUE, op |-> "pad", x |-> R(0), y |-> R(0 - 10)]
    ELSE IF key = "ArrowDown" THEN [mapped |-> TRUE, op |-> "pad", x |-> R(0), y |-> R(10)]
    ELSE IF key = "ArrowLeft" THEN [mapped |-> TRUE, op |-> "pad", x |-> R(0 - 10), y |-> R(0)]
    ELSE IF key = "ArrowRight" THEN [mapped |-> TRUE, op |-> "pad", x |-> R(10), y |-> R(0)]
    ELSE IF key = "Home" THEN [mapped |-> TRUE, op |-> "centerImage", padding |-> 20]
    ELSE IF key = "End" THEN [mapped |-> TRUE, op |-> "centerImage", padding |-> 0]
    ELSE IF key = "+" THEN [mapped |-> TRUE, op |-> "zoom", factor |-> Q(11, 10)]
    ELSE IF key = "-" THEN [mapped |-> TRUE, op |-> "zoom", factor |-> Q(9, 10)]
    ELSE [mapped |-> FALSE]

\* A variant of KeyIgnored: a repeat is not ignored.
KeyIgnoredPreventedOnly(repeat, defaultPrevented) == defaultPrevented

\* The keydown listener bails out on a repeat or an event already prevented.
KeyIgnored(repeat, defaultPrevented) == repeat \/ defaultPrevented

KeyDown(key, repeat, defaultPrevented) ==
    /\ IF KeyIgnored(repeat, defaultPrevented) \/ ~Shortcut(key).mapped
       THEN /\ UNCHANGED <<transformMatrix, ops>>
            /\ last' = Log("keydown", <<>>, FALSE)
       ELSE LET sc == Shortcut(key)
            IN  /\ IF sc.op = "centerImage" THEN FitMatrix(Invoke(sc))
                                            ELSE SetMatrix(Invoke(sc))
                /\ last' = Log("keydown", <<sc.op>>, TRUE)
    /\ UNCHANGED <<area, suppressContextMenu, contentWidth, contentHeight,
                   containerBounding, pointer, actions, observing, limit, media>>

\* A variant of Consumes: every result but undefined leaves the event alone.
ConsumesUndefinedOnly(called, res) == called /\ res = "undefined"

\* called && res !== false
Consumes(called, res) == called /\ res # "false"

\* The handler useShortcuts(s) calls for event.key: s itself when it is a
\* function, s[event.key] when s is a map that has it; res is what the
\* handler returns.
HandlerOf(s, key) ==
    IF s.kind = "function" THEN [called |-> TRUE, res |-> s.res]
    ELSE IF s.kind = "map" /\ key \in DOMAIN s.handlers
         THEN [called |-> TRUE, res |-> s.handlers[key]]
    ELSE [called |-> FALSE, res |-> "undefined"]

\* The keydown listener of useShortcuts(s) for the shortcuts s of another
\* caller, whose handlers do not touch the viewport.
ShortcutsKeyDown(s, key, repeat, defaultPrevented) ==
    /\ LET h == IF KeyIgnored(repeat, defaultPrevented) \/ s.kind = "none"
                THEN [called |-> FALSE, res |-> "undefined"]
                ELSE HandlerOf(s, key)
       IN  last' = Log("shortcut", IF h.called THEN <<Call(key, <<>>)>> ELSE <<>>,
                       Consumes(h.called, h.res))
    /\ UNCHANGED <<transformMatrix, ops, area, suppressContextMenu, contentWidth,
                   contentHeight, containerBounding, pointer, actions, observing, limit, media>>

----------------------------------------------------------------------------
(* The wheel and contextmenu listeners of the viewport.                    *)

\* A variant of WheelOp: the direction of the zoom is the other way round.
WheelOpUpZoomsOut(shiftKey, buttons, deltaY, pt) ==
    IF shiftKey \/ buttons = 2
    THEN [op |-> "rotateAtMousePoint", pt |-> pt,
          deg |-> RMul(R(Sgn(deltaY)), R(IF shiftKey THEN 15 ELSE 2))]
    ELSE [op |-> "zoomAtMousePoint", pt |-> pt,
          factor |-> IF deltaY < 0 THEN Q(9, 10) ELSE Q(11, 10)]

\* The call the wheel listener makes.
WheelOp(shiftKey, buttons, deltaY, pt) ==
    IF shiftKey \/ buttons = 2
    THEN [op |-> "rotateAtMousePoint", pt |-> pt,
          deg |-> RMul(R(Sgn(deltaY)), R(IF shiftKey THEN 15 ELSE 2))]
    ELSE [op |-> "zoomAtMousePoint", pt |-> pt,
          factor |-> IF deltaY < 0 THEN Q(11, 10) ELSE Q(9, 10)]

Wheel(shiftKey, buttons, deltaY, pt) ==
    /\ suppressContextMenu' = IF buttons = 2 THEN TRUE ELSE suppressContextMenu
    /\ LET w == WheelOp(shiftKey, buttons, deltaY, pt)
       IN  /\ SetMatrix(Invoke(w))
           /\ last' = Log("wheel", <<w.op>>, TRUE)
    /\ UNCHANGED <<area, contentWidth, contentHeight, containerBounding, pointer,
                   actions, observing, limit, media>>

\* The contextmenu listener of usePointerAction (window, capture) and then
\* the one of the viewport (container, capture); the first stops the second
\* when it consumes the event.
ContextMenu(shiftKey) ==
    /\ IF shiftKey
       THEN /\ UNCHANGED <<pointer, suppressContextMenu>>
            /\ last' = Log("contextmenu", <<>>, FALSE)
       ELSE IF pointer.suppressContextMenu
       THEN /\ pointer' = [pointer EXCEPT !.suppressContextMenu = FALSE]
            /\ UNCHANGED suppressContextMenu
            /\ last' = Log("contextmenu", <<>>, TRUE)
       ELSE IF suppressContextMenu
       THEN /\ suppressContextMenu' = FALSE
            /\ UNCHANGED pointer
            /\ last' = Log("contextmenu", <<>>, TRUE)
       ELSE /\ UNCHANGED <<pointer, suppressContextMenu>>
            /\ last' = Log("contextmenu", <<>>, FALSE)
    /\ UNCHANGED <<transformMatrix, ops, area, contentWidth, contentHeight,
                   containerBounding, actions, observing, limit, media>>

----------------------------------------------------------------------------
(* usePointerAction: the gesture session, and the actions of the viewport. *)

PointerEvent(pointerId, button, shiftKey, ctrlKey, pt) ==
    [pointerId |-> pointerId, button |-> button, shiftKey |-> shiftKey,
     ctrlKey |-> ctrlKey, clientX |-> pt[1], clientY |-> pt[2]]

\* A variant of mouseInOuterBounds: the comparisons are strict.
mouseInOuterBoundsStrict(event) ==
    LET x == event.clientX - containerBounding.left
        y == event.clientY - containerBounding.top
    IN  /\ x > DRAG_MARGIN
        /\ x < containerBounding.width - DRAG_MARGIN
        /\ y > DRAG_MARGIN
        /\ y < containerBounding.height - DRAG_MARGIN

\* True when the cursor is at least DRAG_MARGIN away from every edge.
mouseInOuterBounds(event) ==
    LET x == event.clientX - containerBounding.left
        y == event.clientY - containerBounding.top
    IN  /\ x >= DRAG_MARGIN
        /\ x <= containerBounding.width - DRAG_MARGIN
        /\ y >= DRAG_MARGIN
        /\ y <= containerBounding.height - DRAG_MARGIN

\* A variant of pan.down: the left button pans at every position.
PanDownLeftAnywhere(event) ==
    IF event.shiftKey \/ event.ctrlKey THEN FALSE
    ELSE event.button = 1 \/ event.button = 0

\* The down callback of the pan action.
PanDown(event) ==
    IF event.shiftKey \/ event.ctrlKey THEN FALSE
    ELSE IF event.button = 1 THEN TRUE
    ELSE IF event.button = 0 THEN mouseInOuterBounds(event)
    ELSE FALSE

\* The down callback of the rotate action.
RotateDown(event) ==
    IF event.shiftKey \/ event.ctrlKey THEN FALSE
    ELSE IF event.button = 0 THEN ~mouseInOuterBounds(event)
    ELSE FALSE

\* A variant of area.down: the right button selects outside the margin only.
AreaDownOutsideMargin(event) ==
    IF event.shiftKey \/ event.ctrlKey THEN FALSE
    ELSE event.button = 2 /\ mouseInOuterBounds(event)

\* The down callback of the area action.
AreaDown(event) ==
    IF event.shiftKey \/ event.ctrlKey THEN FALSE
    ELSE event.button = 2

\* action.down(context), truthy or not, for the action of that name.
Down(name, event) ==
    IF name = "pan" THEN PanDown(event)
    ELSE IF name = "rotate" THEN RotateDown(event)
    ELSE IF name = "area" THEN AreaDown(event)
    ELSE IF name = "primary" THEN event.button = 0
    ELSE TRUE

HasDown(name) == name \in {"pan", "rotate", "area", "primary", "any"}

HasMove(name) == name \in {"pan", "rotate", "area"}

\* A variant of HasUp: no action is taken to have an up callback.
HasUpNever(name) == FALSE

HasUp(name) == name = "area"

\* The session a matching press starts.
\* A variant of StartSession: the position of the press is not taken as the
\* last position, which stays where the session before left it.
StartSessionKeepsPosition(name, event) ==
    [suppressContextMenu |-> FALSE, pointerId |-> <<event.pointerId>>, down |-> TRUE,
     action |-> name, startX |-> event.clientX, startY |-> event.clientY,
     x |-> pointer.x, y |-> pointer.y]

StartSession(name, event) ==
    [suppressContextMenu |-> FALSE, pointerId |-> <<event.pointerId>>, down |-> TRUE,
     action |-> name, startX |-> event.clientX, startY |-> event.clientY,
     x |-> event.clientX, y |-> event.clientY]

\* A variant of DownLoop: the loop does not stop at an event already consumed.
RECURSIVE DownLoopLastWins(_, _, _)
DownLoopLastWins(i, st, event) ==
    IF i > Len(actions) THEN st
    ELSE IF ~HasDown(actions[i]) THEN DownLoopLastWins(i + 1, st, event)
    ELSE IF Down(actions[i], event)
    THEN DownLoopLastWins(i + 1, [pointer |-> StartSession(actions[i], event),
                                  prevented |-> TRUE], event)
    ELSE DownLoopLastWins(i + 1, st, event)

\* The loop of the pointerdown listener over the actions from index i on:
\* st.pointer is the session so far, st.prevented is event.defaultPrevented.
RECURSIVE DownLoop(_, _, _)
DownLoop(i, st, event) ==
    IF i > Len(actions) THEN st
    ELSE IF ~HasDown(actions[i]) THEN DownLoop(i + 1, st, event)
    ELSE IF st.prevented THEN st
    ELSE IF Down(actions[i], event)
    THEN DownLoop(i + 1, [pointer |-> StartSession(actions[i], event),
                          prevented |-> TRUE], event)
    ELSE DownLoop(i + 1, st, event)

\* A variant of DownIgnored: the listener does not look at the modifiers.
DownIgnoredNoModifiers(event) ==
    containerBounding.width = 0 \/ containerBounding.height = 0

\* The pointerdown listener returns at once on these events.
DownIgnored(event) ==
    \/ event.shiftKey \/ event.ctrlKey
    \/ containerBounding.width = 0 \/ containerBounding.height = 0

\* The result of the pointerdown listener: the session and defaultPrevented.
PointerDownResult(event) ==
    IF DownIgnored(event) THEN [pointer |-> pointer, prevented |-> FALSE]
    ELSE DownLoop(1, [pointer |-> pointer, prevented |-> FALSE], event)

PointerDown(event) ==
    /\ LET res == PointerDownResult(event)
       IN  /\ pointer' = res.pointer
           /\ last' = Log("pointerdown", <<>>, res.prevented)
    /\ UNCHANGED <<transformMatrix, ops, area, suppressContextMenu, contentWidth,
                   contentHeight, containerBounding, actions, observing, limit, media>>

\* A variant of SessionEvent: the pointer of the event is not compared.
SessionEventAnyPointer(pointerId) == pointer.down

\* The move and up listeners handle an event only when a session is active
\* and the event is of the session's pointer.
SessionEvent(pointerId) == pointer.down /\ <<pointerId>> = pointer.pointerId

\* The angle the move callback of the rotate action passes to rotate().
RotateMoveAngle(deltaX, deltaY, clientX, clientY) ==
    LET rx0 == Q(deltaX, 100)
        ry0 == Q(deltaY, 100)
        rx == IF RLt(Q(containerBounding.height, 2), R(clientY)) THEN RNeg(rx0) ELSE rx0
        ry == IF RLt(R(clientX), Q(containerBounding.width, 2)) THEN RNeg(ry0) ELSE ry0
    IN  RAdd(rx, ry)

\* A variant of AreaOnMove: the rectangle is left in client coordinates.
AreaOnMoveClient(p) ==
    LET top    == p.startY
        left   == p.startX
        width  == p.x - p.startX
        height == p.y - p.startY
    IN  IF Abs(width) < MIN_AREA \/ Abs(height) < MIN_AREA THEN NoArea
        ELSE Rect(R(IF left < left + width THEN left ELSE left + width),
                  R(IF top < top + height THEN top ELSE top + height),
                  R(Abs(width)), R(Abs(height)))

\* The selection the move callback of the area action leaves, for the
\* session p (already at the event's position).
AreaOnMove(p) ==
    LET top    == p.startY - containerBounding.top
        left   == p.startX - containerBounding.left
        width  == p.x - p.startX
        height == p.y - p.startY
    IN  IF Abs(width) < MIN_AREA \/ Abs(height) < MIN_AREA THEN NoArea
        ELSE Rect(R(IF left < left + width THEN left ELSE left + width),
                  R(IF top < top + height THEN top ELSE top + height),
                  R(Abs(width)), R(Abs(height)))

PointerMove(pointerId, pt) ==
    /\ IF ~SessionEvent(pointerId)
       THEN /\ UNCHANGED <<pointer, transformMatrix, ops, area, suppressContextMenu>>
            /\ last' = Log("pointermove", <<>>, FALSE)
       ELSE LET deltaX == pt[1] - pointer.x
                deltaY == pt[2] - pointer.y
                p == [pointer EXCEPT !.x = pt[1], !.y = pt[2]]
            IN  /\ pointer' = p
                /\ IF ~HasMove(p.action)
                   THEN /\ UNCHANGED <<transformMatrix, ops, area, suppressContextMenu>>
                        /\ last' = Log("pointermove", <<>>, FALSE)
                   ELSE IF p.action = "pan"
                   THEN /\ SetMatrix(pad(R(deltaX), R(deltaY)))
                        /\ UNCHANGED <<area, suppressContextMenu>>
                        /\ last' = Log("pointermove",
                                       <<Call("pan.move", <<deltaX, deltaY>>)>>, FALSE)
                   ELSE IF p.action = "rotate"
                   THEN LET deg == RotateMoveAngle(deltaX, deltaY, pt[1], pt[2])
                        IN  /\ SetMatrix(rotate(deg, NoPivot))
                            /\ UNCHANGED <<area, suppressContextMenu>>
                            /\ last' = Log("pointermove",
                                           <<Call("rotate.move", <<deltaX, deltaY>>),
                                             Call("rotate", <<deg>>)>>, FALSE)
                   ELSE /\ area' = AreaOnMove(p)
                        /\ suppressContextMenu' =
                               IF AreaOnMove(p).set THEN TRUE ELSE suppressContextMenu
                        /\ UNCHANGED <<transformMatrix, ops>>
                        /\ last' = Log("pointermove",
                                       <<Call("area.move", <<deltaX, deltaY>>)>>, FALSE)
    /\ UNCHANGED <<contentWidth, contentHeight, containerBounding, actions, observing, limit, media>>

\* The listener of pointerup and pointercancel.
PointerUp(type, pointerId, pt) ==
    /\ IF ~SessionEvent(pointerId)
       THEN /\ UNCHANGED <<pointer, transformMatrix, ops, area>>
            /\ last' = Log(type, <<>>, FALSE)
       ELSE /\ pointer' = [pointer EXCEPT !.pointerId = <<>>, !.down = FALSE,
                                          !.action = "undefined"]
            /\ IF ~HasUp(pointer.action)
               THEN /\ UNCHANGED <<transformMatrix, ops, area>>
                    /\ last' = Log(type, <<>>, FALSE)
               ELSE /\ IF area.set
                       THEN /\ SetMatrix(select(area))
                            /\ last' = Log(type, <<Call("area.up", <<>>),
                                                   Call("select", <<area>>)>>, FALSE)
                       ELSE /\ UNCHANGED <<transformMatrix, ops>>
                            /\ last' = Log(type, <<Call("area.up", <<>>)>>, FALSE)
                    /\ area' = NoArea
    /\ UNCHANGED <<suppressContextMenu, contentWidth, contentHeight, containerBounding,
                   actions, observing, limit, media>>

----------------------------------------------------------------------------
(* SpecOps: the operations of the viewport, called directly.               *)

InitOps == Constructed(DefaultActions, MaxOps)

Environment ==
    \/ \E sz \in Contents : ContentChange(sz)
    \/ \E rc \in Containers : ContainerResize(rc)

Operation ==
    \/ \E z \in ZoomArgs : Zoom(z[1], z[2])
    \/ \E z \in ZoomAtArgs : ZoomAtMousePoint(z[1], z[2])
    \/ \E r \in RotateArgs : RotateBy(r[1], r[2])
    \/ \E r \in RotateAtArgs : RotateAtMousePoint(r[1], r[2])
    \/ \E g \in Degrees : RotateExact(g)
    \/ \E pd \in Paddings : CenterImage(pd)
    \/ \E d \in PadDeltas : Pad(d)
    \/ \E r \in SelectRects : Select(r)

NextOps == Operation \/ Environment

SpecOps == InitOps /\ [][NextOps]_vars

----------------------------------------------------------------------------
(* SpecPointer: the pointer gestures, under both action lists.             *)

\* The viewport once mounted: the container laid out as cb, the content of
\* size sz decoded (or not yet, sz = <<0, 0>>) and fitted by the watcher, the
\* resize observer stopped by its first observation.
Mounted(acts, lim, cb, sz) ==
    /\ transformMatrix =
           LET ctx == ContextData(Identity, cb, sz[1], sz[2])
           IN  IF ctx.ok THEN FitOf(ctx, OptionsPadding) ELSE Identity
    /\ area = NoArea
    /\ suppressContextMenu = FALSE
    /\ contentWidth = sz[1]
    /\ contentHeight = sz[2]
    /\ containerBounding = cb
    /\ pointer = IdlePointer
    /\ actions = acts
    /\ observing = FALSE
    /\ ops = 0
    /\ limit = lim
    /\ last = Log("init", <<>>, FALSE)
    /\ media = NoMedia

InitPointer ==
    \E acts \in {DefaultActions, OverlapActions} :
        \/ Constructed(acts, MaxGestureOps)
        \/ \E sz \in {<<0, 0>>, <<40, 30>>} :
               Mounted(acts, MaxGestureOps, Bounding(20, 10, 200, 160), sz)

Modifiers == {<<FALSE, FALSE>>, <<TRUE, FALSE>>, <<FALSE, TRUE>>}

\* Presses in the inner zone and in the margin, moves to one further point.
GestureDowns == {<<120, 90>>, <<79, 90>>}

GestureMoves == {<<140, 110>>}

\* The pointerdown events of the gestures.
GestureEvents ==
    {PointerEvent(id, b, md[1], md[2], pt) :
        id \in PointerIds, b \in Buttons, md \in Modifiers, pt \in GestureDowns}

Gesture ==
    \/ \E ev \in GestureEvents : PointerDown(ev)
    \/ \E id \in PointerIds, pt \in GestureMoves : PointerMove(id, pt)
    \/ \E ty \in {"pointerup", "pointercancel"}, id \in PointerIds, pt \in GestureMoves :
           PointerUp(ty, id, pt)
    \/ \E sh \in BOOLEAN : ContextMenu(sh)

NextPointer == Gesture

SpecPointer == InitPointer /\ [][NextPointer]_vars

----------------------------------------------------------------------------
(* SpecClassify: presses at every zone of the container, and releases.     *)

InitClassify == InitPointer

\* The pointerdown events at every zone.
ClassifyEvents ==
    {PointerEvent(id, b, md[1], md[2], pt) :
        id \in PointerIds, b \in Buttons, md \in Modifiers, pt \in DownPoints}

Press == \E ev \in ClassifyEvents : PointerDown(ev)

Release ==
    \E ty \in {"pointerup", "pointercancel"}, id \in PointerIds : PointerUp(ty, id, <<120, 90>>)

NextClassify == Press \/ Release

SpecClassify == InitClassify /\ [][NextClassify]_vars

----------------------------------------------------------------------------
(* SpecArea: the area gesture next to a pan, the wheel and the context     *)
(* menu, on a container at the origin and on one that is offset.           *)

\* Bound of the model: the changes of the transform in SpecArea.
MaxAreaOps == 1

InitArea ==
    \E cb \in {Bounding(0, 0, 200, 160), Bounding(20, 10, 200, 160)} :
        Mounted(DefaultActions, MaxAreaOps, cb, <<40, 30>>)

\* The press point of the drags.
AreaDown0 == <<100, 100>>

\* The points the drags go to: by (5, 5), (12, 20), (20, 5), (50, 60) and
\* (-20, -30) from the press point.
AreaMoves == {<<105, 105>>, <<112, 120>>, <<120, 105>>, <<150, 160>>, <<80, 70>>}

AreaPress ==
    \E id \in PointerIds, b \in {0, 2} :
        PointerDown(PointerEvent(id, b, FALSE, FALSE, AreaDown0))

AreaDrag == \E id \in PointerIds, pt \in AreaMoves : PointerMove(id, pt)

AreaRelease ==
    \E ty \in {"pointerup", "pointercancel"}, id \in PointerIds :
        PointerUp(ty, id, <<150, 160>>)

AreaMenu == \E sh \in BOOLEAN : ContextMenu(sh)

AreaWheel == Wheel(FALSE, 2, 100, AreaDown0)

NextArea == AreaPress \/ AreaDrag \/ AreaRelease \/ AreaMenu \/ AreaWheel

SpecArea == InitArea /\ [][NextArea]_vars

----------------------------------------------------------------------------
(* SpecFit: the fits, automatic and called, between changes of the content *)
(* and of the container and after a zoom or a rotation.                    *)

\* Bound of the model: the changes of the transform between two fits in SpecFit.
MaxFitOps == 1

InitFit == Constructed(DefaultActions, MaxFitOps)

FitContainers == {Bounding(0, 0, 0, 0), Bounding(0, 0, 800, 600), Bounding(20, 10, 200, 160)}

FitContents == {<<0, 0>>, <<400, 300>>, <<40, 30>>}

\* centerImage(padding): none, the padding of the host, and one as wide as
\* the smaller container.
FitPaddings == {0, 40, 200}

FitLayout ==
    \/ \E sz \in FitContents : ContentChange(sz)
    \/ \E rc \in FitContainers : ContainerResize(rc)

FitCall == \E pd \in FitPaddings : CenterImage(pd)

FitUser == Zoom(R(2), NoPivot) \/ RotateBy(R(90), NoPivot)

NextFit == FitLayout \/ FitCall \/ FitUser

SpecFit == InitFit /\ [][NextFit]_vars

----------------------------------------------------------------------------
(* SpecLaws: the operations on fitted, zoomed, rotated and panned          *)
(* transforms of a mounted viewport, for the laws that relate them.        *)

\* Bound of the model: the changes of the transform between two fits in SpecLaws.
MaxLawOps == 2

InitLaws ==
    \E cb \in {Bounding(0, 0, 200, 160), Bounding(20, 10, 200, 160)} :
        Mounted(DefaultActions, MaxLawOps, cb, <<40, 30>>)

\* centerImage(padding): the padding of the options, one that leaves the
\* content smaller than the floor, the height of the container, and one
\* as wide as the container.
LawPaddings == {20, 150, 160, 200}

\* zoom(factor, pivot) with factor > 1
LawZoomIns == {<<R(2), NoPivot>>, <<R(3), Pivot(R(10), R(5))>>}

\* zoom(factor, pivot) with factor < 1
LawZoomOuts == {<<Q(1, 2), NoPivot>>, <<Q(1, 4), NoPivot>>, <<Q(9, 10), Pivot(R(10), R(5))>>}

LawRotations == {<<R(90), NoPivot>>, <<R(0 - 15), NoPivot>>, <<R(90), Pivot(R(10), R(5))>>}

\* rotateExact(deg)
LawDegrees == {R(0), R(90), R(0 - 15)}

LawPads == {<<R(5), R(0 - 5)>>, <<R(10), R(0)>>}

\* select(rect): container-local rectangles, as the area gesture gives them.
LawRects == {Rect(R(50), R(40), R(100), R(80)), Rect(R(20), R(30), R(50), R(60))}

LawFit == \E pd \in LawPaddings : CenterImage(pd)

LawZoom ==
    \/ \E z \in LawZoomIns \cup LawZoomOuts : Zoom(z[1], z[2])
    \/ ZoomAtMousePoint(Q(9, 10), <<120, 90>>)

LawRotate ==
    \/ \E r \in LawRotations : RotateBy(r[1], r[2])
    \/ \E g \in LawDegrees : RotateExact(g)

LawMove ==
    \/ \E d \in LawPads : Pad(d)
    \/ \E r \in LawRects : Select(r)

NextLaws == LawFit \/ LawZoom \/ LawRotate \/ LawMove

SpecLaws == InitLaws /\ [][NextLaws]_vars

----------------------------------------------------------------------------
(* SpecZoomOut: zoom(0.9) called again and again, on small fits, straight  *)
(* or turned by a quarter.                                                 *)

\* Bound of the model: the changes of the transform between two fits in
\* SpecZoomOut; the floor stops the zoom-outs earlier on every fit below.
MaxZoomOuts == 5

\* Containers whose fits are at most 67 pixels wide.
SmallContainers == {Bounding(0, 0, 80, 60), Bounding(0, 0, 100, 70), Bounding(20, 10, 80, 80)}

SmallContents == {<<40, 30>>, <<30, 40>>}

SmallPaddings == {20, 30, 40}

InitZoomOut ==
    \E cb \in SmallContainers, sz \in SmallContents :
        Mounted(DefaultActions, MaxZoomOuts, cb, sz)

\* Changes of the content, each followed by the fit of the watcher, and
\* fits called by the host.
SmallLayout ==
    \/ \E sz \in SmallContents : ContentChange(sz)
    \/ \E pd \in SmallPaddings : CenterImage(pd)

\* A quarter turn, straight after a fit.
QuarterTurn == ops = 0 /\ RotateBy(R(90), NoPivot)

\* zoom(0.9), the call of the '-' key.
ZoomOut9 == Zoom(Q(9, 10), NoPivot)

NextZoomOut == SmallLayout \/ QuarterTurn \/ ZoomOut9

\* ENABLED <<ZoomOut9>>_vars, written out: the call is allowed by the bound
\* and changes the transform or the record of the last event.
ZoomOut9Enabled ==
    /\ (ops < limit \/ ~getContextData.ok)
    /\ \/ zoom(Q(9, 10), NoPivot) # transformMatrix
       \/ last # Log("zoom", <<Call("zoom", <<Q(9, 10), NoPivot>>)>>, FALSE)

\* WF_vars(ZoomOut9), with ENABLED written out: zoom(0.9) is called for as
\* long as a call changes something.
ZoomOut9Fair == []<>(~ZoomOut9Enabled) \/ []<><<ZoomOut9>>_vars

SpecZoomOut == InitZoomOut /\ [][NextZoomOut]_vars /\ ZoomOut9Fair

----------------------------------------------------------------------------
(* SpecKeys: the keys and the wheel, on a viewport mounted with and        *)
(* without content, next to the shortcuts of another caller.               *)

\* Bound of the model: the changes of the transform between two fits in SpecKeys.
MaxKeyOps == 1

InitKeys ==
    \E sz \in {<<0, 0>>, <<40, 30>>} :
        Mounted(DefaultActions, MaxKeyOps, Bounding(20, 10, 200, 160), sz)

\* event.key: the ten keys of the key map, a letter and a modifier.
KeyNames == {" ", "Escape", "ArrowUp", "ArrowDown", "ArrowLeft", "ArrowRight",
             "Home", "End", "+", "-", "a", "Shift"}

\* What a handler returns: nothing, a boolean, or a falsy value that is
\* not false.
Results == {"undefined", "true", "false", "0"}

\* The shortcuts of another caller: none, one function, a map of two keys.
HostShortcuts ==
    {[kind |-> "none"]}
        \cup {[kind |-> "function", res |-> r] : r \in Results}
        \cup {[kind |-> "map", handlers |-> [k \in {"+", "-"} |-> IF k = "+" THEN r ELSE "undefined"]] :
                 r \in Results}

KeyPress ==
    \E k \in KeyNames, rp \in BOOLEAN, dp \in BOOLEAN : KeyDown(k, rp, dp)

HostKeyPress ==
    \E s \in HostShortcuts, k \in {"+", "a"}, rp \in BOOLEAN, dp \in BOOLEAN :
        ShortcutsKeyDown(s, k, rp, dp)

WheelTurn ==
    \E sh \in BOOLEAN, dy \in {0 - 100, 100} : Wheel(sh, 0, dy, <<120, 90>>)

NextKeys == KeyPress \/ HostKeyPress \/ WheelTurn

SpecKeys == InitKeys /\ [][NextKeys]_vars

----------------------------------------------------------------------------
(* SpecWheel: the wheel with every combination of shift, buttons and       *)
(* direction, at two points, next to the context menu.                     *)

\* Bound of the model: the changes of the transform in SpecWheel.
MaxWheelOps == 1

InitWheel ==
    \E cb \in {Bounding(0, 0, 200, 160), Bounding(20, 10, 200, 160)},
       sz \in {<<0, 0>>, <<40, 30>>, <<30, 40>>} :
        Mounted(DefaultActions, MaxWheelOps, cb, sz)

\* event.deltaY: up, none (a horizontal scroll), down.
WheelDeltas == {0 - 100, 0, 100}

\* event.buttons: none, right, left and right.
WheelButtons == {0, 2, 3}

WheelPoints == {<<120, 90>>, <<60, 30>>}

WheelEvent ==
    \E sh \in BOOLEAN, b \in WheelButtons, dy \in WheelDeltas, pt \in WheelPoints :
        Wheel(sh, b, dy, pt)

WheelMenu == \E sh \in BOOLEAN : ContextMenu(sh)

NextWheel == WheelEvent \/ WheelMenu

SpecWheel == InitWheel /\ [][NextWheel]_vars

----------------------------------------------------------------------------
(* SpecRotate: the rotate gesture, on a container at the origin and on one *)
(* that is offset, with moves into every quarter of the container.         *)

\* Bound of the model: the changes of the transform in SpecRotate.
MaxRotateOps == 2

InitRotate ==
    \E cb \in {Bounding(0, 0, 200, 160), Bounding(20, 10, 200, 160)} :
        Mounted(DefaultActions, MaxRotateOps, cb, <<40, 30>>)

\* The press point of the drags: in the margin of both containers.
RotateDown0 == <<40, 90>>

\* The points the drags go to: one in each quarter of both containers, and
\* one between the middle lines of the window and of the offset container.
RotateMoves == {<<60, 40>>, <<160, 40>>, <<60, 120>>, <<160, 120>>, <<110, 85>>}

RotatePress ==
    \E id \in PointerIds : PointerDown(PointerEvent(id, 0, FALSE, FALSE, RotateDown0))

RotateDrag == \E id \in PointerIds, pt \in RotateMoves : PointerMove(id, pt)

RotateRelease ==
    \E ty \in {"pointerup", "pointercancel"}, id \in PointerIds :
        PointerUp(ty, id, <<160, 120>>)

NextRotate == RotatePress \/ RotateDrag \/ RotateRelease

SpecRotate == InitRotate /\ [][NextRotate]_vars

----------------------------------------------------------------------------
(* SpecPan: pan and area sessions that start on the fitted content, with   *)
(* several moves each, on a container at the origin and on one offset.     *)

\* Bound of the model: the changes of the transform between two fits in SpecPan.
MaxPanOps == 3

InitPan ==
    \E cb \in {Bounding(0, 0, 200, 160), Bounding(20, 10, 200, 160)} :
        Mounted(DefaultActions, MaxPanOps, cb, <<40, 30>>)

\* The press points: in the inner zone of both containers.
PanDowns == {<<100, 80>>, <<120, 90>>}

\* The points the drags go to.
PanMoves == {<<105, 85>>, <<130, 70>>, <<90, 100>>}

\* A press of the left or right button, on the content as the fit left it.
PanPress ==
    /\ ops = 0
    /\ \E id \in PointerIds, b \in {0, 2}, pt \in PanDowns :
           PointerDown(PointerEvent(id, b, FALSE, FALSE, pt))

PanDrag == \E id \in PointerIds, pt \in PanMoves : PointerMove(id, pt)

PanRelease ==
    \E ty \in {"pointerup", "pointercancel"}, id \in PointerIds, pt \in PanMoves :
        PointerUp(ty, id, pt)

\* The host fits the content again, between two sessions.
PanRefit == ~pointer.down /\ CenterImage(OptionsPadding)

NextPan == PanPress \/ PanDrag \/ PanRelease \/ PanRefit

SpecPan == InitPan /\ [][NextPan]_vars

----------------------------------------------------------------------------
(* The component ImageViewer.vue: its own pointer state and listeners. The *)
(* transform operations it calls (context.pad, context.rotate, ...) are    *)
(* the operations above; pointer holds the fields of its pointer ref,      *)
(* pointer.down being "false" or the name of the action, and area the      *)
(* value of its computed area.                                             *)

\* controls?.dragRotate?.margin ?? 60
ViewerMargin == 60

\* options.padding of the host
ViewerPadding == 40

ViewerIdle ==
    [pointerId |-> <<>>, down |-> "false", startX |-> 0, startY |-> 0, x |-> 0, y |-> 0]

\* The computed area of the pointer state p.
ViewerArea(p) ==
    LET w == p.x - p.startX
        h == p.y - p.startY
    IN  IF p.down = "area" /\ Abs(w) > MIN_AREA /\ Abs(h) > MIN_AREA
        THEN Rect(R(IF p.startX < p.startX + w THEN p.startX ELSE p.startX + w),
                  R(IF p.startY < p.startY + h THEN p.startY ELSE p.startY + h),
                  R(Abs(w)), R(Abs(h)))
        ELSE NoArea

\* The pointer state a press starts.
ViewerStart(name, event) ==
    [pointerId |-> <<event.pointerId>>, down |-> name,
     startX |-> event.clientX, startY |-> event.clientY,
     x |-> event.clientX, y |-> event.clientY]

\* The action of a press: drag-rotate in the margin, else by the button.
ViewerDown(event) ==
    LET mouseX == event.clientX - containerBounding.left
        mouseY == event.clientY - containerBounding.top
    IN  IF event.shiftKey \/ event.ctrlKey THEN "false"
        ELSE IF \/ mouseX < ViewerMargin
                \/ mouseX > containerBounding.width - ViewerMargin
                \/ mouseY < ViewerMargin
                \/ mouseY > containerBounding.height - ViewerMargin
             THEN "drag-rotate"
        ELSE IF event.button \in {0, 1} THEN "pan"
        ELSE IF event.button = 2 THEN "area"
        ELSE "false"

\* The pointerdown listener.
ViewerPointerDown(event) ==
    /\ LET name == ViewerDown(event)
       IN  IF name = "false"
           THEN /\ UNCHANGED <<pointer, area>>
                /\ last' = Log("pointerdown", <<>>, FALSE)
           ELSE /\ pointer' = ViewerStart(name, event)
                /\ area' = ViewerArea(ViewerStart(name, event))
                /\ last' = Log("pointerdown", <<>>, TRUE)
    /\ UNCHANGED <<transformMatrix, ops, suppressContextMenu, contentWidth,
                   contentHeight, containerBounding, actions, observing, limit, media>>

\* The event is one of the active action.
ViewerSessionEvent(pointerId) == pointer.down # "false" /\ <<pointerId>> = pointer.pointerId

ViewerRotateAngle(deltaX, deltaY, p) ==
    LET rx0 == Q(deltaX, 100)
        ry0 == Q(deltaY, 100)
        rx == IF RLt(Q(containerBounding.height, 2), R(p.y)) THEN RNeg(rx0) ELSE rx0
        ry == IF RLt(R(p.x), Q(containerBounding.width, 2)) THEN RNeg(ry0) ELSE ry0
    IN  RAdd(rx, ry)

\* The pointermove listener.
ViewerPointerMove(pointerId, pt) ==
    /\ IF ~ViewerSessionEvent(pointerId)
       THEN /\ UNCHANGED <<pointer, transformMatrix, ops, area, suppressContextMenu>>
            /\ last' = Log("pointermove", <<>>, FALSE)
       ELSE LET deltaX == pt[1] - pointer.x
                deltaY == pt[2] - pointer.y
                p == [pointer EXCEPT !.x = pt[1], !.y = pt[2]]
            IN  /\ pointer' = p
                /\ area' = ViewerArea(p)
                /\ suppressContextMenu' =
                       (Abs(p.startX - p.x) > MIN_AREA \/ Abs(p.startY - p.y) > MIN_AREA)
                /\ IF p.down = "pan"
                   THEN /\ SetMatrix(pad(R(deltaX), R(deltaY)))
                        /\ last' = Log("pointermove", <<Call("pad", <<deltaX, deltaY>>)>>, FALSE)
                   ELSE IF p.down = "drag-rotate"
                   THEN /\ SetMatrix(rotate(ViewerRotateAngle(deltaX, deltaY, p), NoPivot))
                        /\ last' = Log("pointermove", <<Call("rotate", <<>>)>>, FALSE)
                   ELSE /\ UNCHANGED <<transformMatrix, ops>>
                        /\ last' = Log("pointermove", <<>>, FALSE)
    /\ UNCHANGED <<contentWidth, contentHeight, containerBounding, actions, observing, limit, media>>

\* The listener of pointerup and pointercancel.
ViewerPointerUp(type, pointerId) ==
    /\ IF ~ViewerSessionEvent(pointerId)
       THEN /\ UNCHANGED <<pointer, transformMatrix, ops, area>>
            /\ last' = Log(type, <<>>, FALSE)
       ELSE /\ IF area.set
               THEN /\ SetMatrix(select(area))
                    /\ last' = Log(type, <<Call("select", <<area>>)>>, FALSE)
               ELSE /\ UNCHANGED <<transformMatrix, ops>>
                    /\ last' = Log(type, <<>>, FALSE)
            /\ pointer' = [pointer EXCEPT !.pointerId = <<>>, !.down = "false"]
            /\ area' = NoArea
    /\ UNCHANGED <<suppressContextMenu, contentWidth, contentHeight, containerBounding,
                   actions, observing, limit, media>>

\* The shortcuts of the host: the call a key makes.
ViewerShortcut(key) ==
    IF key = " " THEN [mapped |-> TRUE, op |-> "centerImage", padding |-> ViewerPadding]
    ELSE IF key = "Escape" THEN [mapped |-> TRUE, op |-> "rotateExact", deg |-> R(0)]
    ELSE IF key = "+" THEN [mapped |-> TRUE, op |-> "zoom", factor |-> Q(11, 10)]
    ELSE IF key = "-" THEN [mapped |-> TRUE, op |-> "zoom", factor |-> Q(9, 10)]
    ELSE [mapped |-> FALSE]

\* A variant of ViewerCancels: no key cancels the action.
ViewerCancelsNever(key) == FALSE

\* event.key === 'Escape' && pointer.value.down
ViewerCancels(key) == key = "Escape" /\ pointer.down # "false"

\* The keydown listener.
ViewerKeyDown(key, repeat) ==
    /\ IF repeat
       THEN /\ UNCHANGED <<pointer, area, transformMatrix, ops>>
            /\ last' = Log("keydown", <<>>, FALSE)
       ELSE IF ViewerCancels(key)
       THEN /\ pointer' = [pointer EXCEPT !.down = "false"]
            /\ area' = NoArea
            /\ UNCHANGED <<transformMatrix, ops>>
            /\ last' = Log("keydown", <<>>, TRUE)
       ELSE IF ~ViewerShortcut(key).mapped
       THEN /\ UNCHANGED <<pointer, area, transformMatrix, ops>>
            /\ last' = Log("keydown", <<>>, FALSE)
       ELSE LET sc == ViewerShortcut(key)
            IN  /\ IF sc.op = "centerImage" THEN FitMatrix(Invoke(sc))
                                            ELSE SetMatrix(Invoke(sc))
                /\ UNCHANGED <<pointer, area>>
                /\ last' = Log("keydown", <<sc.op>>, TRUE)
    /\ UNCHANGED <<suppressContextMenu, contentWidth, contentHeight, containerBounding,
                   actions, observing, limit, media>>

\* The contextmenu listener, alwaysSuppressContextMenu being false.
ViewerContextMenu(shiftKey) ==
    /\ IF ~shiftKey /\ suppressContextMenu
       THEN /\ suppressContextMenu' = FALSE
            /\ last' = Log("contextmenu", <<>>, TRUE)
       ELSE /\ UNCHANGED suppressContextMenu
            /\ last' = Log("contextmenu", <<>>, FALSE)
    /\ UNCHANGED <<transformMatrix, ops, area, pointer, contentWidth, contentHeight,
                   containerBounding, actions, observing, limit, media>>

----------------------------------------------------------------------------
(* SpecViewer: the gestures and the keys of ImageViewer.vue.               *)

\* Bound of the model: the changes of the transform between two fits in SpecViewer.
MaxViewerOps == 1

\* The component once mounted: the content fitted with the padding of the
\* host, no action active.
InitViewer ==
    /\ transformMatrix =
           FitOf(ContextData(Identity, Bounding(20, 10, 200, 160), 40, 30), ViewerPadding)
    /\ area = NoArea
    /\ suppressContextMenu = FALSE
    /\ contentWidth = 40
    /\ contentHeight = 30
    /\ containerBounding = Bounding(20, 10, 200, 160)
    /\ pointer = ViewerIdle
    /\ actions = DefaultActions
    /\ observing = FALSE
    /\ ops = 0
    /\ limit = MaxViewerOps
    /\ last = Log("init", <<>>, FALSE)
    /\ media = NoMedia

\* Presses in the inner zone and in the margin.
ViewerDowns == {<<100, 80>>, <<40, 90>>}

\* The points the drags go to: near the press, and far from it both ways.
ViewerMoves == {<<105, 85>>, <<130, 110>>}

ViewerKeys == {"Escape", "+", "a"}

ViewerPress ==
    \E id \in PointerIds, b \in Buttons, pt \in ViewerDowns :
        ViewerPointerDown(PointerEvent(id, b, FALSE, FALSE, pt))

ViewerDrag == \E id \in PointerIds, pt \in ViewerMoves : ViewerPointerMove(id, pt)

ViewerRelease ==
    \E ty \in {"pointerup", "pointercancel"}, id \in PointerIds : ViewerPointerUp(ty, id)

ViewerKey == \E k \in ViewerKeys, rp \in BOOLEAN : ViewerKeyDown(k, rp)

ViewerMenu == \E sh \in BOOLEAN : ViewerContextMenu(sh)

NextViewer == ViewerPress \/ ViewerDrag \/ ViewerRelease \/ ViewerKey \/ ViewerMenu

SpecViewer == InitViewer /\ [][NextViewer]_vars

----------------------------------------------------------------------------
(* The content elements: the watcher of the content, the load listener and *)
(* the completion of decode(), as separate steps. media.attached is the    *)
(* element the content ref holds (0: none), media.complete the elements    *)
(* whose image data has arrived (naturalWidth and naturalHeight are 0      *)
(* before), media.decoding those whose decode() promise is pending.        *)

\* Bound of the model: the number of content elements.
MaxElements == 3

Elements == 1..MaxElements

\* The intrinsic size of the image of an element.
IntrinsicSize(el) == IF el % 2 = 1 THEN <<40, 30>> ELSE <<30, 40>>

\* el.naturalWidth, el.naturalHeight, in the media state md.
NaturalSize(md, el) == IF el \in md.complete THEN IntrinsicSize(el) ELSE <<0, 0>>

\* computeDimensions(el) with the media state md, and the watcher of the
\* size that fits the content when the size has changed.
computeDimensions(md, el) ==
    LET size == IF el = 0 THEN <<0, 0>> ELSE NaturalSize(md, el)
    IN  /\ contentWidth' = size[1]
        /\ contentHeight' = size[2]
        /\ IF size[1] # contentWidth \/ size[2] # contentHeight
           THEN ResetIn(ContextData(transformMatrix, containerBounding, size[1], size[2]))
           ELSE UNCHANGED <<transformMatrix, ops>>

\* The content ref changes to el (0: to nothing): the watcher computes the
\* size and calls decode() on an image.
ContentReplaced(el) ==
    /\ el # media.attached
    /\ media' = [media EXCEPT !.attached = el,
                              !.decoding = IF el = 0 THEN @ ELSE @ \cup {el}]
    /\ computeDimensions(media, el)
    /\ last' = Log("content", <<Call("computeDimensions", <<el>>)>>, FALSE)
    /\ UNCHANGED <<area, suppressContextMenu, containerBounding, pointer, actions,
                   observing, limit>>

\* The image of el arrives; the load listener runs when el is the content.
ImageLoaded(el) ==
    /\ el \notin media.complete
    /\ media' = [media EXCEPT !.complete = @ \cup {el}]
    /\ IF el = media.attached
       THEN /\ computeDimensions(media', el)
            /\ last' = Log("load", <<Call("computeDimensions", <<el>>)>>, FALSE)
       ELSE /\ UNCHANGED <<contentWidth, contentHeight, transformMatrix, ops>>
            /\ last' = Log("load", <<>>, FALSE)
    /\ UNCHANGED <<area, suppressContextMenu, containerBounding, pointer, actions,
                   observing, limit>>

\* The decode() promise of el resolves: el.decode().then(() =>
\* computeDimensions(el)), for the element the watcher ran on.
DecodeResolved(el) ==
    /\ el \in media.decoding
    /\ el \in media.complete
    /\ media' = [media EXCEPT !.decoding = @ \ {el}]
    /\ computeDimensions(media, el)
    /\ last' = Log("decode", <<Call("computeDimensions", <<el>>)>>, FALSE)
    /\ UNCHANGED <<area, suppressContextMenu, containerBounding, pointer, actions,
                   observing, limit>>

----------------------------------------------------------------------------
(* SpecDecode: content elements replaced while images load and decode.     *)

InitDecode ==
    \E cb \in {Bounding(0, 0, 200, 160), Bounding(20, 10, 200, 160)} :
        Mounted(DefaultActions, 0, cb, <<0, 0>>)

ContentSwap == \E el \in Elements \cup {0} : ContentReplaced(el)

ContentLoad == \E el \in Elements : ImageLoaded(el)

ContentDecode == \E el \in Elements : DecodeResolved(el)

NextDecode == ContentSwap \/ ContentLoad \/ ContentDecode

SpecDecode == InitDecode /\ [][NextDecode]_vars

----------------------------------------------------------------------------
(* Spec: every operation and every event, in any order, on fewer inputs.   *)

Init == Constructed(DefaultActions, MaxMixedOps)

FewOperations ==
    \/ Zoom(Q(1, 2), NoPivot)
    \/ ZoomAtMousePoint(R(2), <<120, 90>>)
    \/ RotateBy(R(90), NoPivot)
    \/ RotateAtMousePoint(R(90), <<120, 90>>)
    \/ RotateExact(R(0))
    \/ CenterImage(0)
    \/ Pad(<<R(5), R(0 - 5)>>)
    \/ Select(Rect(R(50), R(40), R(100), R(80)))

\* One press for each gesture: pan, rotate, area.
FewPresses == {<<0, <<120, 90>>>>, <<0, <<79, 90>>>>, <<2, <<120, 90>>>>}

FewInputs ==
    \/ \E k \in Keys, rp \in BOOLEAN : KeyDown(k, rp, FALSE)
    \/ \E sh \in BOOLEAN : Wheel(sh, 0, 100, <<120, 90>>)
    \/ ContextMenu(FALSE)
    \/ \E pr \in FewPresses : PointerDown(PointerEvent(1, pr[1], FALSE, FALSE, pr[2]))
    \/ PointerMove(1, <<140, 110>>)
    \/ PointerUp("pointerup", 1, <<140, 110>>)

FewChanges ==
    \/ \E sz \in {<<0, 0>>, <<40, 30>>} : ContentChange(sz)
    \/ \E rc \in {Bounding(0, 0, 0, 0), Bounding(20, 10, 200, 160)} : ContainerResize(rc)

Next == FewOperations \/ FewInputs \/ FewChanges

Spec == Init /\ [][Next]_vars

----------------------------------------------------------------------------
(* The claims about the transform operations.                              *)

\* The content or the container has no size.
NotReady ==
    \/ containerBounding.width = 0 \/ containerBounding.height = 0
    \/ contentWidth = 0 \/ contentHeight = 0

\* The events that call an operation: the operations themselves, the key
\* shortcuts, the wheel, and the moves and releases of a gesture.
OperationEvents ==
    {"zoom", "zoomAtMousePoint", "rotate", "rotateAtMousePoint", "rotateExact",
     "centerImage", "pad", "select", "keydown", "wheel", "pointermove",
     "pointerup", "pointercancel"}

\* C1: while the container's width or height is 0 or the content's width or
\* height is 0, every operation (zoom, zoomAtMousePoint, rotate,
\* rotateAtMousePoint, rotateExact, centerImage, pad, select), called
\* directly or through a key shortcut, the wheel or a pointer gesture,
\* leaves the transform matrix unchanged.
C1_NoOpWhenNotReady ==
    [][(NotReady /\ last'.ev \in OperationEvents)
           => transformMatrix' = transformMatrix]_vars

\* C1, its case: a fitted transform, the content or container gone since, and
\* the move of a gesture that has called an operation.
C1_GestureWhileNotReady ==
    /\ NotReady
    /\ transformMatrix # Identity
    /\ last.ev = "pointermove"
    /\ last.calls # <<>>

\* The size the zoom-out floor compares with 50 pixels:
\* max(currentScale * contentWidth, currentScale * contentHeight).
ScaledSize ==
    LET currentScale == RSqrt(RAdd(RMul(transformMatrix.a, transformMatrix.a),
                                   RMul(transformMatrix.b, transformMatrix.b)))
    IN  RMax(RMul(currentScale, R(contentWidth)), RMul(currentScale, R(contentHeight)))

\* zoom(factor) is rejected: factor < 1 and the scaled size is below 50.
ZoomRejected(factor) == RLt(factor, R(1)) /\ RLt(ScaledSize, R(50))

\* The transform is finite and invertible, so that scaling it by a factor
\* other than 1 changes it.
Regular == MatrixFinite(transformMatrix) /\ ~REq(Det(transformMatrix), R(0))

\* C2: with content and container ready, zoom(factor, pivot) leaves the
\* transform unchanged when factor < 1 and the scaled size is below 50, and
\* is applied in every other case (a regular transform changes), so with
\* every factor >= 1 and with a scaled size of exactly 50.
C2_ZoomFloor ==
    [][\A z \in ZoomArgs :
           (~NotReady /\ Zoom(z[1], z[2])) =>
               IF ZoomRejected(z[1]) THEN transformMatrix' = transformMatrix
               ELSE Regular /\ ~REq(z[1], R(1)) => transformMatrix' # transformMatrix]_vars

\* C2, its case: a zoom has brought the content to exactly 50 pixels, where
\* a further zoom-out is still applied.
C2_AtFloor ==
    /\ ~NotReady
    /\ last.ev = "zoom"
    /\ ops >= 1
    /\ REq(ScaledSize, R(50))

\* C3: after any sequence of the operations and of the automatic fits, the
\* transform matrix is invertible: its determinant a*d - b*c is not zero.
C3_Invertible == ~REq(Det(transformMatrix), R(0))

----------------------------------------------------------------------------
(* The claims about the gesture session.                                   *)

\* The container has a size, so that the pointerdown listener goes on.
LaidOut == containerBounding.width # 0 /\ containerBounding.height # 0

NoModifier(ev) == ~ev.shiftKey /\ ~ev.ctrlKey

\* C4: a pointer-down that arrives while a session is active is ignored: the
\* session's pointerId, action, start position and last position are the
\* same after it as before it.
C4_SecondDownIgnored ==
    [][(pointer.down /\ last'.ev = "pointerdown") =>
           /\ pointer'.down
           /\ pointer'.pointerId = pointer.pointerId
           /\ pointer'.action = pointer.action
           /\ pointer'.startX = pointer.startX /\ pointer'.startY = pointer.startY
           /\ pointer'.x = pointer.x /\ pointer'.y = pointer.y]_vars

\* The event of pointer id is not of the active session, or there is none.
NotOfSession(id) == ~pointer.down \/ pointer.pointerId # <<id>>

\* Nothing but the log of the event changes, and no callback has run.
NothingDone ==
    /\ UNCHANGED <<pointer, transformMatrix, area, suppressContextMenu>>
    /\ last'.calls = <<>>

\* C5: a pointer-move, pointer-up or pointer-cancel whose pointerId is not
\* the one of the active session, or that arrives while no session is
\* active, changes nothing: the session, the transform, the selection and
\* the suppress flag stay as they are and no move or up callback runs.
C5_OtherPointerIgnored ==
    [][\A id \in PointerIds, pt \in GestureMoves :
           /\ (NotOfSession(id) /\ PointerMove(id, pt)) => NothingDone
           /\ \A ty \in {"pointerup", "pointercancel"} :
                  (NotOfSession(id) /\ PointerUp(ty, id, pt)) => NothingDone]_vars

\* C5, its case: a release has been handled and the session is still active,
\* so the release was of another pointer.
C5_ReleaseOfOtherPointer ==
    /\ pointer.down
    /\ pointer.action \in {"pan", "rotate", "area"}
    /\ last.ev \in {"pointerup", "pointercancel"}

\* The positions in the action list of the actions whose down predicate
\* returns true for the event.
Matching(ev) == {i \in 1..Len(actions) : Down(actions[i], ev)}

FirstMatching(ev) == CHOOSE i \in Matching(ev) : \A j \in Matching(ev) : i <= j

\* C6: the session a pointer-down starts is bound to the first action in
\* list order whose down predicate returns true, also when a later one
\* returns true as well; when no predicate returns true no session starts
\* and the pointer state is unchanged.
C6_FirstMatchWins ==
    [][\A ev \in GestureEvents :
           PointerDown(ev) =>
               /\ Matching(ev) = {} => pointer' = pointer
               /\ pointer' # pointer =>
                      /\ Matching(ev) # {}
                      /\ pointer' = StartSession(actions[FirstMatching(ev)], ev)
               /\ (Matching(ev) # {} /\ NoModifier(ev) /\ LaidOut) =>
                      pointer' = StartSession(actions[FirstMatching(ev)], ev)]_vars

\* C6, its case: a press both actions of the list accept has started the
\* session of the first.
C6_FirstOfTwo ==
    /\ actions = OverlapActions
    /\ pointer.down
    /\ pointer.action = "primary"
    /\ last.ev = "pointerdown"
    /\ last.consumed

\* C7: a pointer-down with shiftKey or ctrlKey starts no session, for every
\* button, position and action list: the pointer state, the transform, the
\* selection and the suppress flag are unchanged, the event is not consumed.
C7_ModifierPressIgnored ==
    [][\A ev \in GestureEvents :
           (~NoModifier(ev) /\ PointerDown(ev)) =>
               /\ UNCHANGED <<pointer, transformMatrix, area, suppressContextMenu>>
               /\ ~last'.consumed]_vars

\* C7, its case: under the list whose last action accepts every press, a
\* press on the laid-out container was not consumed: it held a modifier.
C7_ModifierPressUnderAny ==
    /\ actions = OverlapActions
    /\ LaidOut
    /\ last.ev = "pointerdown"
    /\ ~last.consumed

----------------------------------------------------------------------------
(* The claims about the default actions of the viewport.                   *)

\* The container-local position of the event is less than the margin away
\* from at least one of the four edges.
InMargin(ev) ==
    LET x == ev.clientX - containerBounding.left
        y == ev.clientY - containerBounding.top
    IN  \/ x < 60 \/ containerBounding.width - x < 60
        \/ y < 60 \/ containerBounding.height - y < 60

\* The session is at a start position in the margin.
StartedInMargin ==
    InMargin([clientX |-> pointer.startX, clientY |-> pointer.startY])

C9_LeftButtonByZone ==
    [][\A ev \in ClassifyEvents :
           (actions = DefaultActions /\ LaidOut /\ ev.button = 0 /\ NoModifier(ev)
            /\ PointerDown(ev)) =>
               pointer' = StartSession(IF InMargin(ev) THEN "rotate" ELSE "pan", ev)]_vars

\* C9, its case: a rotate session started 59 pixels from the right edge.
C9_RotateNearRightEdge ==
    /\ actions = DefaultActions
    /\ pointer.down /\ pointer.action = "rotate"
    /\ containerBounding.width - (pointer.startX - containerBounding.left) = 59
    /\ last.ev = "pointerdown"

----------------------------------------------------------------------------
(* The claims about the selection and the context menu.                    *)

\* The event of pointer id is of the active session, an area session.
OfAreaSession(id) ==
    pointer.down /\ pointer.action = "area" /\ pointer.pointerId = <<id>>

Min(i, j) == IF i < j THEN i ELSE j

\* C11: during an area session the selection is non-null exactly when both
\* |currentX - startX| and |currentY - startY| exceed 12 pixels; a drag of
\* 12 or less on either axis has no selection.
C11_SelectionBeyondThreshold ==
    [][\A id \in PointerIds, pt \in AreaMoves :
           (OfAreaSession(id) /\ PointerMove(id, pt)) =>
               (area'.set <=> (/\ Abs(pt[1] - pointer.startX) > 12
                               /\ Abs(pt[2] - pointer.startY) > 12))]_vars

C13_ReleaseSelects ==
    [][\A id \in PointerIds, ty \in {"pointerup", "pointercancel"} :
           (OfAreaSession(id) /\ PointerUp(ty, id, <<150, 160>>)) =>
               /\ last'.calls = IF area.set THEN <<"area.up", "select">>
                                            ELSE <<"area.up">>
               /\ area.set => transformMatrix' = select(area)
               /\ ~area.set => transformMatrix' = transformMatrix
               /\ area' = NoArea
               /\ ~pointer'.down
               /\ pointer'.pointerId = <<>>
               /\ pointer'.action = "undefined"]_vars

\* C13, its case: a release has called select and changed the transform.
C13_Selected ==
    /\ last.ev \in {"pointerup", "pointercancel"}
    /\ last.calls = <<"area.up", "select">>
    /\ ops >= 1
    /\ area = NoArea
    /\ ~pointer.down

\* C14: the selection is non-null only while an area session is active.
C14_SelectionOnlyInAreaSession ==
    area.set => (pointer.down /\ pointer.action = "area")

\* The position is more than 12 pixels away from the press point.
FarFromPress(pt) ==
    LET dx == pt[1] - pointer.startX
        dy == pt[2] - pointer.startY
    IN  dx * dx + dy * dy > 12 * 12

\* C15: once the pointer of a gesture has moved more than 12 pixels from the
\* press point, the next context-menu event without shift is suppressed,
\* and that one only; a context-menu event is not suppressed when no gesture
\* has moved that far since the one before.  In terms of the pending
\* suppression: such a move raises it, nothing else does, and a context-menu
\* event without shift is consumed exactly when it is pending and clears it.
C15_SuppressAfterDrag ==
    [][/\ \A id \in PointerIds, pt \in AreaMoves :
              (pointer.down /\ pointer.pointerId = <<id>> /\ PointerMove(id, pt)
               /\ FarFromPress(pt)) => suppressContextMenu'
       /\ (suppressContextMenu' /\ ~suppressContextMenu) =>
              /\ last'.ev = "pointermove"
              /\ pointer.down
              /\ FarFromPress(<<pointer'.x, pointer'.y>>)
       /\ ContextMenu(FALSE) =>
              /\ last'.consumed <=> suppressContextMenu
              /\ ~suppressContextMenu']_vars

----------------------------------------------------------------------------
(* The claims about the fit.                                               *)

\* C16: every centerImage(padding) that is applied leaves a transform of
\* rotation 0, atan2(b, a) = 0: b is 0 and a is not negative.
C16_FitUnrotated ==
    [][\A pd \in FitPaddings :
           (~NotReady /\ CenterImage(pd)) =>
               /\ REq(transformMatrix'.b, R(0))
               /\ RLe(R(0), transformMatrix'.a)]_vars

\* The scale of the fit in container cb: min((containerW - padding) / contentW,
\* (containerH - padding) / contentH).
FitScaleIn(pd, cb) ==
    RMin(Q(cb.width - pd, contentWidth), Q(cb.height - pd, contentHeight))

FitScale(pd) == FitScaleIn(pd, containerBounding)

\* Matrix m is the uniform scale s that maps the content centre to the
\* centre of container cb.
CentredScaleIn(m, s, cb) ==
    /\ REq(m.a, s) /\ REq(m.d, s) /\ REq(m.b, R(0)) /\ REq(m.c, R(0))
    /\ REq(RAdd(RMul(s, Q(contentWidth, 2)), m.e), Q(cb.width, 2))
    /\ REq(RAdd(RMul(s, Q(contentHeight, 2)), m.f), Q(cb.height, 2))

CentredScale(m, s) == CentredScaleIn(m, s, containerBounding)

\* C17: when ready, centerImage(padding) sets the transform to the uniform
\* scale min((containerW - padding)/contentW, (containerH - padding)/contentH)
\* with the content centre on the container centre, whatever the transform
\* was before.
C17_FitScaleAndCentre ==
    [][\A pd \in FitPaddings :
           (~NotReady /\ CenterImage(pd)) =>
               CentredScale(transformMatrix', FitScale(pd))]_vars

\* C17, its case: container 800 x 600, content 400 x 300, centerImage(40):
\* the scale is 560/300 and the content centre is at (400, 300).
C17_FitOfExample ==
    /\ last.ev = "centerImage"
    /\ containerBounding.width = 800 /\ containerBounding.height = 600
    /\ contentWidth = 400 /\ contentHeight = 300
    /\ REq(transformMatrix.a, Q(560, 300))
    /\ TransformPoint(transformMatrix, R(200), R(150)) = [x |-> R(400), y |-> R(300)]

\* C18: whenever the content changes to content that is ready, also content
\* of the same width and height as the one before, the transform becomes the
\* fit of the new content.
C18_ContentChangeRefits ==
    [][\A sz \in FitContents :
           (ContentChange(sz) /\ sz[1] # 0 /\ sz[2] # 0 /\ LaidOut) =>
               transformMatrix' =
                   FitOf(ContextData(transformMatrix, containerBounding, sz[1], sz[2]),
                         OptionsPadding)]_vars

\* The size of the container changes in the step.
Resized ==
    \/ containerBounding'.width # containerBounding.width
    \/ containerBounding'.height # containerBounding.height

\* C19: a resize of the container fits at most once in the life of the
\* viewport: the first observation fits (when ready) and stops the
\* observer, the observer never starts again, and no later resize changes
\* the transform.
C19_ResizeFitsOnce ==
    [][/\ (last'.ev = "resize" /\ ~observing) => transformMatrix' = transformMatrix
       /\ ~observing => ~observing'
       /\ (last'.ev = "resize" /\ observing /\ Resized) =>
              /\ ~observing'
              /\ IF containerBounding'.width = 0 \/ containerBounding'.height = 0
                    \/ contentWidth = 0 \/ contentHeight = 0
                 THEN transformMatrix' = transformMatrix
                 ELSE CentredScaleIn(transformMatrix',
                                     FitScaleIn(OptionsPadding, containerBounding'),
                                     containerBounding')]_vars

\* C19, its case: after a later resize the viewport is ready and its
\* transform is a user's, not the fit of the container's new size.
C19_UserTransformSurvives ==
    /\ last.ev = "resize"
    /\ ~observing
    /\ ~NotReady
    /\ ops >= 1
    /\ ~CentredScale(transformMatrix, FitScale(OptionsPadding))

----------------------------------------------------------------------------
(* The claims about the zoom at the cursor.                                *)

----------------------------------------------------------------------------
(* The claims about the laws of the operations.                            *)

\* C21: for every factor > 1 and every pivot, zoom(factor, pivot) followed
\* by zoom(1/factor, pivot) gives back the matrix that held before the
\* first call, unless the zoom floor rejects the second call.
C21_ZoomRoundTrip ==
    [][\A z \in LawZoomIns :
           (~NotReady /\ Zoom(z[1], z[2])) =>
               \/ ZoomFloor(transformMatrix', contentWidth, contentHeight)
               \/ zoomOn(transformMatrix', RDiv(R(1), z[1]), z[2]) = transformMatrix]_vars

\* C21, its case: a zoom by a factor > 1 about a pivot other than the
\* centre has changed a rotated transform, and the floor lets the zoom back
\* through.
C21_ZoomedIn ==
    /\ ~NotReady
    /\ last.ev = "zoom"
    /\ ops = limit
    /\ ~REq(transformMatrix.b, R(0))
    /\ ~ZoomFloor(transformMatrix, contentWidth, contentHeight)

\* The size the floor compares with 50 pixels, of matrix m.
ScaledSizeOf(m) ==
    LET currentScale == RSqrt(RAdd(RMul(m.a, m.a), RMul(m.b, m.b)))
    IN  RMax(RMul(currentScale, R(contentWidth)), RMul(currentScale, R(contentHeight)))

\* C22: a zoom-out is denied whenever it would make the larger displayed
\* dimension of the content smaller than 50 pixels: from a ready state
\* where that dimension is at least 50, no zoom and no zoomAtMousePoint
\* leaves it below 50.
C22_NeverBelowFloor ==
    [][(/\ ~NotReady
        /\ last'.ev \in {"zoom", "zoomAtMousePoint"}
        /\ RLe(R(50), ScaledSizeOf(transformMatrix)))
           => RLe(R(50), ScaledSizeOf(transformMatrix'))]_vars

\* C23: from every ready state, zoom(0.9) called again and again with no
\* other operation in between (from some point on the last event handled
\* is always a zoom) changes the matrix finitely many times: from some call
\* on, every further zoom(0.9) leaves the matrix as it is (and it is the
\* call that leaves it, with changes of the transform still allowed by the
\* bound of the model).
C23_ZoomOutStops ==
    <>[](last.ev = "zoom") =>
        <>[](zoom(Q(9, 10), NoPivot) = transformMatrix /\ ops < limit)

\* C23, its case: three calls of zoom(0.9) have changed a regular transform
\* and the next one leaves it unchanged.
C23_Stopped ==
    /\ ~NotReady
    /\ Regular
    /\ last.ev = "zoom"
    /\ ops >= 3
    /\ zoom(Q(9, 10), NoPivot) = transformMatrix

\* Matrix n is matrix m moved by (dx, dy) on screen: the same linear part,
\* the translation (e + dx, f + dy).
MovedBy(m, n, dx, dy) ==
    /\ REq(n.a, m.a) /\ REq(n.b, m.b) /\ REq(n.c, m.c) /\ REq(n.d, m.d)
    /\ REq(n.e, RAdd(m.e, dx)) /\ REq(n.f, RAdd(m.f, dy))

\* C24: when ready, pad(dx, dy) moves the content by exactly (dx, dy) on
\* screen, whatever the scale and the rotation: a, b, c, d are unchanged
\* and the translation becomes (e + dx, f + dy).
C24_PadMovesByScreenDelta ==
    [][\A d \in LawPads :
           (~NotReady /\ Pad(d)) =>
               MovedBy(transformMatrix, transformMatrix', d[1], d[2])]_vars

ScaleOf(m) == RSqrt(RAdd(RMul(m.a, m.a), RMul(m.b, m.b)))

\* The rotation atan2(b, a) of matrix m is the angle of cosine and sine cs;
\* atan2(0, 0) is 0.
RotationIs(m, cs) ==
    LET u == NegAtan2CS(m.b, m.a)
    IN  REq(u.c, cs.c) /\ REq(RNeg(u.s), cs.s)

\* Matrices m and n display the content point (x, y) at the same position.
SamePlace(m, n, x, y) ==
    LET p == TransformPoint(m, x, y)
        q == TransformPoint(n, x, y)
    IN  REq(p.x, q.x) /\ REq(p.y, q.y)

\* C26: from every ready state the operations reach, rotateExact(target)
\* gives a transform whose rotation atan2(b, a) is target, whose scale
\* sqrt(a^2 + b^2) is the scale before the call, and that displays the
\* content centre where it was displayed before the call.
C26_RotateExactSetsRotation ==
    [][\A g \in LawDegrees :
           (~NotReady /\ RotateExact(g)) =>
               /\ RotationIs(transformMatrix', CosSin(g))
               /\ REq(ScaleOf(transformMatrix'), ScaleOf(transformMatrix))
               /\ SamePlace(transformMatrix, transformMatrix',
                            Q(contentWidth, 2), Q(contentHeight, 2))]_vars

\* Cosine and sine of the rotation atan2(b, a) of matrix m turned by the
\* angle of cosine and sine cs.
TurnedBy(m, cs) ==
    LET u  == NegAtan2CS(m.b, m.a)
        c0 == u.c
        s0 == RNeg(u.s)
    IN  [c |-> RSub(RMul(c0, cs.c), RMul(s0, cs.s)),
         s |-> RAdd(RMul(s0, cs.c), RMul(c0, cs.s))]

\* C27: when ready, rotate(delta, pivot) is applied whatever the size of
\* the content: it adds delta to the rotation atan2(b, a), keeps the scale
\* sqrt(a^2 + b^2), and keeps the place on screen of its pivot, the content
\* centre when no pivot is given.
C27_RotateAboutPivot ==
    [][\A r \in LawRotations :
           (~NotReady /\ RotateBy(r[1], r[2])) =>
               LET p == IF r[2].given THEN [x |-> r[2].x, y |-> r[2].y]
                        ELSE [x |-> Q(contentWidth, 2), y |-> Q(contentHeight, 2)]
               IN  /\ RotationIs(transformMatrix', TurnedBy(transformMatrix, CosSin(r[1])))
                   /\ REq(ScaleOf(transformMatrix'), ScaleOf(transformMatrix))
                   /\ SamePlace(transformMatrix, transformMatrix', p.x, p.y)]_vars

\* C28: when ready, select(rect) of a container-local rectangle displays at
\* the centre of the container the content point that was displayed at the
\* centre of the rectangle, multiplies the scale by
\* min(containerW / rect.w, containerH / rect.h) and keeps the rotation,
\* whatever the transform was.
C28_SelectCentresRect ==
    [][\A r \in LawRects :
           (~NotReady /\ Select(r)) =>
               LET under == TransformPoint(Inverse(transformMatrix),
                                           RAdd(r.x, RDiv(r.w, R(2))),
                                           RAdd(r.y, RDiv(r.h, R(2))))
                   shown == TransformPoint(transformMatrix', under.x, under.y)
                   k     == RMin(RDiv(R(containerBounding.width), r.w),
                                 RDiv(R(containerBounding.height), r.h))
               IN  /\ REq(shown.x, Q(containerBounding.width, 2))
                   /\ REq(shown.y, Q(containerBounding.height, 2))
                   /\ REq(ScaleOf(transformMatrix'), RMul(ScaleOf(transformMatrix), k))
                   /\ RotationIs(transformMatrix',
                                 TurnedBy(transformMatrix, [c |-> R(1), s |-> R(0)]))]_vars


----------------------------------------------------------------------------
(* The claims about the shortcuts.                                         *)

\* C29, as claimed: each keydown of a mapped key with repeat = false calls
\* the mapped operation once.
C29_EveryFirstKeydownInvokes ==
    [][\A k \in KeyNames, dp \in BOOLEAN :
           (last'.ev = "keydown" /\ Shortcut(k).mapped /\ KeyDown(k, FALSE, dp)) =>
               last'.calls = <<Shortcut(k).op>>]_vars

\* C29: each keydown of a mapped key with repeat = false that no listener
\* has default-prevented calls the mapped operation once ('+' calls
\* zoom(1.1)); a keydown with repeat = true, or one already
\* default-prevented, calls no operation and changes no state.
C29_KeydownInvokesOnce ==
    [][\A k \in KeyNames, rp \in BOOLEAN, dp \in BOOLEAN :
           (last'.ev = "keydown" /\ KeyDown(k, rp, dp)) =>
               IF Shortcut(k).mapped /\ ~rp /\ ~dp
               THEN /\ last'.calls = <<Shortcut(k).op>>
                    /\ transformMatrix' = Invoke(Shortcut(k))
                    /\ k = "+" => transformMatrix' = zoom(Q(11, 10), NoPivot)
               ELSE /\ last'.calls = <<>>
                    /\ UNCHANGED <<transformMatrix, ops, area, suppressContextMenu,
                                   contentWidth, contentHeight, containerBounding,
                                   pointer, actions, observing>>]_vars

\* C29, its case: the keydown of '+' has zoomed the fit of 180 pixels to 198.
C29_PlusZoomed ==
    /\ last = Log("keydown", <<"zoom">>, TRUE)
    /\ ops = 1
    /\ REq(ScaledSize, R(198))

\* useShortcuts(s) has a handler to call for the event: the event is no
\* repeat and not default-prevented, and s is a function or a map with
\* the key.
HandlerInvoked(s, key, repeat, defaultPrevented) ==
    /\ ~repeat /\ ~defaultPrevented
    /\ s.kind = "function" \/ (s.kind = "map" /\ key \in DOMAIN s.handlers)

\* What that handler returns.
ResultOf(s, key) == IF s.kind = "function" THEN s.res ELSE s.handlers[key]

----------------------------------------------------------------------------
(* The wheel.                                                              *)

\* The step is a wheel event that rotates about the point pt by deg.
WheelRotates(deg, pt) ==
    /\ last'.calls = <<Call("rotateAtMousePoint", <<deg, pt>>)>>
    /\ transformMatrix' = rotateAtMousePoint(deg, pt[1], pt[2])

\* The step is a wheel event that zooms about the point pt by factor.
WheelZooms(factor, pt) ==
    /\ last'.calls = <<Call("zoomAtMousePoint", <<factor, pt>>)>>
    /\ transformMatrix' = zoomAtMousePoint(factor, pt[1], pt[2])

C39_ZeroDeltaKeepsTransform ==
    [][\A sh \in BOOLEAN, b \in WheelButtons, pt \in WheelPoints :
          (last'.ev = "wheel" /\ Wheel(sh, b, 0, pt)) =>
              transformMatrix' = transformMatrix]_vars

----------------------------------------------------------------------------
(* The rotate gesture.                                                     *)

\* (+-deltaX +- deltaY) / 100 with the signs taken from the half of the
\* container the cursor is in, in container-local coordinates.
LocalHalvesAngle(deltaX, deltaY, clientX, clientY) ==
    LET localX == clientX - containerBounding.left
        localY == clientY - containerBounding.top
        rx == IF 2 * localY > containerBounding.height THEN 0 - deltaX ELSE deltaX
        ry == IF 2 * localX < containerBounding.width THEN 0 - deltaY ELSE deltaY
    IN  Q(rx + ry, 100)

\* The step is a move of the rotate session of pointer id to the point pt.
RotateSessionMove(id, pt) ==
    /\ pointer.down
    /\ pointer.action = "rotate"
    /\ SessionEvent(id)
    /\ last'.ev = "pointermove"
    /\ PointerMove(id, pt)

\* C32: during a rotate session each move rotates by (+-dx +- dy) / 100
\* degrees, the dx term negated exactly when the cursor is in the bottom
\* half of the container and the dy term exactly when it is in the left
\* half, the halves taken in container-local coordinates wherever the
\* container is on screen.
C32_RotateByLocalHalves ==
    [][\A id \in PointerIds, pt \in RotateMoves :
          RotateSessionMove(id, pt) =>
              LET dx  == pt[1] - pointer.x
                  dy  == pt[2] - pointer.y
                  deg == LocalHalvesAngle(dx, dy, pt[1], pt[2])
              IN  /\ REq(RotateMoveAngle(dx, dy, pt[1], pt[2]), deg)
                  /\ last'.calls = <<Call("rotate.move", <<dx, dy>>), Call("rotate", <<deg>>)>>
                  /\ transformMatrix' = rotate(deg, NoPivot)]_vars

----------------------------------------------------------------------------
(* The inverse of a singular transform.                                    *)

\* The operations that invert the transform.
InvertingOperations == {"pad", "zoomAtMousePoint", "rotateAtMousePoint", "select"}

\* C33: an operation that inverts the transform (pad, zoomAtMousePoint,
\* rotateAtMousePoint, select), called while the transform is singular,
\* leaves the transform unchanged; and no step reaches a transform with a
\* NaN or infinite entry.
C33_SingularInverseFails ==
    [][/\ (/\ ~NotReady
            /\ MatrixFinite(transformMatrix)
            /\ REq(Det(transformMatrix), R(0))
            /\ last'.ev \in InvertingOperations) => transformMatrix' = transformMatrix
       /\ MatrixFinite(transformMatrix')]_vars

----------------------------------------------------------------------------
(* The deltas of a session.                                                *)

\* The transform m is the fit moved on screen by the way the session p has
\* gone since its press.
MovedWithSession(m, p) ==
    MovedBy(FitOf(ContextData(m, containerBounding, contentWidth, contentHeight),
                  OptionsPadding),
            m, R(p.x - p.startX), R(p.y - p.startY))

\* C34: within one session each move delivers the delta between the
\* position of the event and the position of the previous processed event
\* of the session, the press position for the first move (a pan moves the
\* content by exactly that delta); the start position stays the press
\* position; so the deltas delivered so far add up to the last position
\* minus the start position (a pan that began on the fitted content shows
\* the fit moved by that much).
C34_DeltasAddUp ==
    [][/\ \A id \in PointerIds, b \in {0, 2}, pt \in PanDowns :
            (/\ last'.ev = "pointerdown"
             /\ last'.consumed
             /\ PointerDown(PointerEvent(id, b, FALSE, FALSE, pt))) =>
                /\ pointer'.startX = pt[1] /\ pointer'.startY = pt[2]
                /\ pointer'.x = pt[1] /\ pointer'.y = pt[2]
       /\ \A id \in PointerIds, pt \in PanMoves :
            (/\ SessionEvent(id)
             /\ last'.ev = "pointermove"
             /\ PointerMove(id, pt)) =>
                /\ pointer' = [pointer EXCEPT !.x = pt[1], !.y = pt[2]]
                /\ pointer.action = "pan" =>
                       /\ last'.calls = <<Call("pan.move", <<pt[1] - pointer.x,
                                                             pt[2] - pointer.y>>)>>
                       /\ MovedBy(transformMatrix, transformMatrix',
                                  R(pt[1] - pointer.x), R(pt[2] - pointer.y))
                /\ pointer.action = "area" => area' = AreaOnMove(pointer')
       /\ (pointer'.down /\ pointer'.action = "pan") =>
              MovedWithSession(transformMatrix', pointer')
       /\ \A ty \in {"pointerup", "pointercancel"}, id \in PointerIds, pt \in PanMoves :
            (/\ SessionEvent(id)
             /\ last'.ev = ty
             /\ PointerUp(ty, id, pt)) =>
                /\ pointer'.startX = pointer.startX /\ pointer'.startY = pointer.startY
                /\ pointer'.x = pointer.x /\ pointer'.y = pointer.y]_vars

\* A pan session has had two moves, the second not from the press position.
C34_PannedTwice ==
    /\ pointer.down
    /\ pointer.action = "pan"
    /\ ops = 2
    /\ last.calls = <<Call("pan.move", <<>>)>>
    /\ ~MovedBy(FitOf(getContextData, OptionsPadding), transformMatrix, R(0), R(0))

----------------------------------------------------------------------------
(* The scope of the suppress flag.                                         *)

\* C35: the context-menu suppress flag is scoped to one session: when a
\* press starts a new session, no flag raised before it (by a drag whose
\* contextmenu event never came, or by a wheel turn with the right button
\* held) is still set, in the viewport or in the pointer state.
C35_FlagScopedToSession ==
    [][(last'.ev = "pointerdown" /\ last'.consumed) =>
           (~suppressContextMenu' /\ ~pointer'.suppressContextMenu)]_vars

----------------------------------------------------------------------------
(* The Escape key of ImageViewer.                                          *)

\* The step leaves the state of the component as it is.
ViewerUntouched ==
    /\ last'.calls = <<>>
    /\ UNCHANGED <<transformMatrix, area, pointer, suppressContextMenu>>

\* C36: in ImageViewer a first keydown of Escape while an action is active
\* cancels it: no shortcut handler runs, the transform stays, the selection
\* becomes null and no action is active; while no action is active, moves
\* and releases of any pointer change nothing and call nothing (so select
\* is not called for the cancelled gesture); with no action active, a first
\* keydown of Escape invokes the configured shortcut, rotateExact(0).
C36_EscapeCancels ==
    [][/\ (/\ pointer.down # "false"
            /\ last'.ev = "keydown"
            /\ ViewerKeyDown("Escape", FALSE)) =>
               /\ last' = Log("keydown", <<>>, TRUE)
               /\ pointer'.down = "false"
               /\ area' = NoArea
               /\ UNCHANGED <<transformMatrix, suppressContextMenu>>
       /\ (/\ pointer.down = "false"
            /\ last'.ev \in {"pointermove", "pointerup", "pointercancel"}) =>
               ViewerUntouched
       /\ (/\ pointer.down = "false"
            /\ last'.ev = "keydown"
            /\ ViewerKeyDown("Escape", FALSE)) =>
               /\ last' = Log("keydown", <<Call("rotateExact", <<R(0)>>)>>, TRUE)
               /\ transformMatrix' = rotateExact(R(0))
               /\ UNCHANGED <<area, pointer>>]_vars

\* An area gesture that had a selection was cancelled, and then released.
C36_CancelledAreaReleased ==
    /\ pointer.down = "false"
    /\ pointer.pointerId # <<>>
    /\ ViewerArea([pointer EXCEPT !.down = "area"]).set
    /\ last.ev = "pointerup"
    /\ ops = 0

----------------------------------------------------------------------------
(* The fields of the gesture session.                                      *)

\* C38: in every reachable state of ImageViewer an action is active
\* (pointer.down names it) if and only if pointerId is defined: a press
\* sets them together, and a release, a cancel and a cancel by Escape clear
\* them together.
C38_SessionFieldsConsistent == (pointer.down # "false") <=> (pointer.pointerId # <<>>)

----------------------------------------------------------------------------
(* The tracked size and the content attached.                              *)

\* C37: once the image of the attached content element is complete, the
\* tracked width and height are its intrinsic size, in every state and
\* whatever completions of decode() and load events of earlier elements
\* come in between.
C37_TrackedSizeOfAttached ==
    (media.attached # 0 /\ media.attached \in media.complete) =>
        <<contentWidth, contentHeight>> = IntrinsicSize(media.attached)

====
